---- MODULE Spec2Model ----
(***************************************************************************)
(* A state-machine model of the search engine of ai-chess-engine:          *)
(* ChessEngine (engine.py: minimax with alpha-beta pruning, quiescence     *)
(* search, transposition table, iterative deepening), the evaluator        *)
(* (evaluation.py) and the move orderer (move_ordering.py).                *)
(*                                                                         *)
(* The rules engine (python-chess) is an external collaborator.  It is     *)
(* represented by a finite game: a table of positions, each with its side  *)
(* to move, its terminal status, the value of each evaluation component    *)
(* and its legal moves in generation order; a move carries the features    *)
(* that score_move reads.  A position identifier stands for the FEN of the *)
(* position, which is the transposition key.                               *)
(*                                                                         *)
(* The recursion of minimax / quiescence_search is an explicit call stack  *)
(* of frames.  One step runs a frame from where it stands to its next call *)
(* or to its return.  The wall clock is read at every node; what it reads  *)
(* is a nondeterministic, non-decreasing elapsed time.                     *)
(***************************************************************************)
EXTENDS Integers, Sequences, FiniteSets, TLC

\* ------------------------------------------------------------ bounds

\* Largest max_depth an engine is constructed with, and largest depth
\* argument given to analyze_position.
MaxDepth == 2

\* Number of top-level calls (searches, resets) made on one engine.
MaxCalls == 2

\* Largest depth of a direct call of minimax.
MaxDirectDepth == 3

\* ------------------------------------------------- program constants

WHITE == TRUE
BLACK == FALSE

PAWN == 1
KNIGHT == 2
BISHOP == 3
ROOK == 4
QUEEN == 5
KING == 6

\* float('inf'); -Inf is float('-inf')
Inf == 1000000

\* the checkmate score of minimax and of evaluate_board
MATE == 99999

\* iterative_deepening leaves its loop when abs(score) exceeds this
MateThreshold == 90000

\* quiescence_search returns stand_pat when its depth exceeds this
QuiescenceLimit == 6

\* order_moves adds this to the score of the transposition-table move
TTMoveBonus == 100000

PIECE_VALUES(pt) ==
    CASE pt = PAWN -> 100
      [] pt = KNIGHT -> 320
      [] pt = BISHOP -> 330
      [] pt = ROOK -> 500
      [] pt = QUEEN -> 900
      [] pt = KING -> 20000
      [] OTHER -> 0

\* ------------------------------------------------------------- moves

\* None, where a move is expected.  The engine holds a move by its name
\* (uci), which tells the moves of one position apart as the squares of a
\* chess.Move do.
NoMove == "None"

\* A move: its name, the position it leads to, the piece moved, whether it
\* gives check, the piece captured on the target square (0: none), and the
\* rank and file of the target square.
Move(uci, to, piece, check, victim, rank, file) ==
    [uci |-> uci, to |-> to, piece |-> piece, is_check |-> check,
     victim |-> victim, en_passant |-> FALSE, promotion |-> 0,
     attacked |-> <<>>, castling |-> FALSE, to_rank |-> rank, to_file |-> file]

\* A pawn reaching the eighth rank on the given file and promoting.
Promotion(uci, to, promoted, file) ==
    [Move(uci, to, PAWN, FALSE, 0, 7, file) EXCEPT !.promotion = promoted]

\* board.is_capture(move)
IsCapture(m) == m.victim # 0 \/ m.en_passant

\* ---------------------------------------------------------- positions

Components(material) ==
    [material |-> material, piece_position |-> 0, pawn_structure |-> 0,
     king_safety |-> 0, mobility |-> 0, center_control |-> 0,
     rook_placement |-> 0, bishop_pair |-> 0]

\* The numbers of queens, knights and bishops of each side, as
\* len(board.pieces(piece_type, color)) gives them.
Pieces(wq, bq, wn, wb, bn, bb) ==
    [white_queens |-> wq, black_queens |-> bq, white_knights |-> wn,
     white_bishops |-> wb, black_knights |-> bn, black_bishops |-> bb]

\* a queen, a knight and a bishop each; kings alone
MiddlegamePieces == Pieces(1, 1, 1, 1, 1, 1)
BareKings == Pieces(0, 0, 0, 0, 0, 0)

Position(turn, status, material, moves) ==
    [turn |-> turn, status |-> status, comp |-> Components(material),
     pieces |-> MiddlegamePieces, moves |-> moves]

\* A leaf of the game tree: Black to move, one quiet king move, after which
\* White is stalemated.
Leaf(material) ==
    Position(BLACK, "play", material, << Move("k", "TW", KING, FALSE, 0, 7, 0) >>)

\* A position of the exchange sequence Q0 .. Q7: the only legal move
\* recaptures and leads to the next position of the sequence.
Exchange(turn, next) ==
    Position(turn, "play", IF turn = WHITE THEN 0 ELSE 5,
             << Move("x", next, ROOK, FALSE, ROOK, 3, 0) >>)

Game ==
    [ \* White promotes to a queen (a) or a rook (b) and Black takes the new
      \* piece (x): the two lines transpose into X
      R0 |-> Position(WHITE, "play", 0,
                 << Promotion("a", "A", QUEEN, 0),
                    Promotion("b", "B", ROOK, 0) >>),
      A  |-> Position(BLACK, "play", 1,
                 << Move("y", "Y", PAWN, TRUE, QUEEN, 1, 1),
                    Move("x", "X", ROOK, FALSE, QUEEN, 7, 0) >>),
      B  |-> Position(BLACK, "play", 2,
                 << Move("x", "X", ROOK, FALSE, ROOK, 7, 0),
                    Move("z", "Z", KING, FALSE, 0, 6, 2) >>),
      X  |-> Position(WHITE, "play", 4,
                 << Move("p", "X1", KNIGHT, FALSE, 0, 2, 0),
                    Move("q", "X2", KNIGHT, FALSE, 0, 2, 2) >>),
      Y  |-> Position(WHITE, "play", 3,
                 << Move("p", "Y1", KNIGHT, FALSE, 0, 2, 0) >>),
      Z  |-> Position(WHITE, "play", 6,
                 << Move("p", "Z1", KNIGHT, FALSE, 0, 2, 0) >>),
      X1 |-> Leaf(5),
      X2 |-> Leaf(9),
      Y1 |-> Leaf(3),
      Z1 |-> Leaf(8),
      \* White mates in one with m; s captures with check and is ordered first
      RM |-> Position(WHITE, "play", 1,
                 << Move("m", "MB", QUEEN, TRUE, 0, 6, 6),
                    Move("s", "S", QUEEN, TRUE, PAWN, 6, 5) >>),
      S  |-> Position(BLACK, "play", 2,
                 << Move("k", "TW", KING, FALSE, QUEEN, 6, 5) >>),
      MB |-> Position(BLACK, "checkmate", 9, << >>),
      \* Black mates in one with m
      RB |-> Position(BLACK, "play", -1,
                 << Move("n", "N", KNIGHT, FALSE, 0, 2, 2),
                    Move("m", "MW", QUEEN, TRUE, 0, 1, 6) >>),
      N  |-> Position(WHITE, "play", -2,
                 << Move("k", "TB", KING, FALSE, 0, 0, 7) >>),
      MW |-> Position(WHITE, "checkmate", -9, << >>),
      \* a quiet move into an exchange sequence longer than the quiescence cap
      C0 |-> Position(WHITE, "play", 0,
                 << Move("r", "Q0", ROOK, FALSE, 0, 3, 0) >>),
      Q0 |-> Exchange(BLACK, "Q1"),
      Q1 |-> Exchange(WHITE, "Q2"),
      Q2 |-> Exchange(BLACK, "Q3"),
      Q3 |-> Exchange(WHITE, "Q4"),
      Q4 |-> Exchange(BLACK, "Q5"),
      Q5 |-> Exchange(WHITE, "Q6"),
      Q6 |-> Exchange(BLACK, "Q7"),
      Q7 |-> Exchange(WHITE, "Q8"),
      Q8 |-> Position(BLACK, "stalemate", 5, << >>),
      \* White mates at once with m, or two moves later after n, a capture
      \* with check that is ordered first; the same for Black from DB
      RD  |-> Position(WHITE, "play", 1,
                  << Move("m", "MB", QUEEN, TRUE, 0, 6, 6),
                     Move("n", "D1", QUEEN, TRUE, PAWN, 6, 5) >>),
      D1  |-> Position(BLACK, "play", 2,
                  << Move("k", "D2", KING, FALSE, 0, 7, 7) >>),
      D2  |-> Position(WHITE, "play", 2,
                  << Move("m", "MB2", ROOK, TRUE, 0, 7, 0) >>),
      MB2 |-> Position(BLACK, "checkmate", 9, << >>),
      DB  |-> Position(BLACK, "play", -1,
                  << Move("m", "MW", QUEEN, TRUE, 0, 1, 6),
                     Move("n", "DB1", QUEEN, TRUE, PAWN, 1, 5) >>),
      DB1 |-> Position(WHITE, "play", -2,
                  << Move("k", "DB2", KING, FALSE, 0, 0, 7) >>),
      DB2 |-> Position(BLACK, "play", -2,
                  << Move("m", "MW2", ROOK, TRUE, 0, 0, 0) >>),
      MW2 |-> Position(WHITE, "checkmate", -9, << >>),
      \* draws that a player may claim and that do not end the game: the
      \* halfmove clock has reached 100, the position has occurred three times
      F0  |-> Position(WHITE, "fifty", 3,
                  << Move("p", "F1", KNIGHT, FALSE, 0, 2, 0) >>),
      F1  |-> Leaf(4),
      T0  |-> Position(BLACK, "threefold", -3,
                  << Move("p", "T1", KNIGHT, FALSE, 0, 5, 0) >>),
      T1  |-> Position(WHITE, "play", -4,
                  << Move("k", "TB", KING, FALSE, 0, 0, 7) >>),
      \* no legal move, and the rules engine does not report the game over:
      \* the case of line 155 of minimax
      NM  |-> Position(WHITE, "play", 6, << >>),
      \* the position of a new board, chess.Board(): White opens towards RB,
      \* towards DB or into the exchange sequence
      START |-> Position(WHITE, "play", 0,
                    << Move("e", "RB", PAWN, FALSE, 0, 3, 4),
                       Move("d", "DB", PAWN, FALSE, 0, 3, 3),
                       Move("c", "Q0", KNIGHT, FALSE, 0, 2, 2) >>),
      \* stalemates
      TW |-> Position(WHITE, "stalemate", 7, << >>),
      TB |-> Position(BLACK, "stalemate", -7, << >>) ]

\* The positions on which minimax reaches `if not moves`: is_game_over() is
\* false and legal_moves is empty.  python-chess reports no such board (a
\* board without legal moves is checkmate or stalemate to it); the engine
\* provides for it, and it is searched in SpecDefensive alone.
DefensivePositions == {"NM"}

Positions == DOMAIN Game \ DefensivePositions

\* The positions a search is started from.
Roots == {"R0", "RM", "RB", "C0", "MW", "TW"}

\* ------------------------------------------------------ rules engine

\* board.turn
Turn(p) == Game[p].turn

\* board.is_checkmate()
IsCheckmate(pos) == pos.status = "checkmate"

\* board.is_stalemate()
IsStalemate(pos) == pos.status = "stalemate"

\* board.is_insufficient_material()
IsInsufficientMaterial(pos) == pos.status = "insufficient"

\* board.is_fifty_moves(): a halfmove clock of 100 or more (so also of 150)
IsFiftyMoves(pos) == pos.status \in {"fifty", "seventyfive"}

\* board.is_repetition(): the position occurred three times (so also five)
IsRepetition(pos) == pos.status \in {"threefold", "fivefold"}

\* board.is_game_over(), claim_draw left False: checkmate, insufficient
\* material, stalemate, the seventy-five-move rule, fivefold repetition
IsGameOver(pos) ==
    pos.status \in {"checkmate", "insufficient", "stalemate", "seventyfive", "fivefold"}

\* list(board.legal_moves)
LegalMoves(p) == Game[p].moves

\* the legal move of position p that has the name uci
LegalMove(p, uci) ==
    LET moves == LegalMoves(p)
    IN  moves[CHOOSE i \in 1..Len(moves) : moves[i].uci = uci]

\* the names of a list of moves
Names(moves) == [i \in 1..Len(moves) |-> moves[i].uci]

\* the names of the legal moves of position p
LegalNames(p) == {LegalMoves(p)[i].uci : i \in 1..Len(LegalMoves(p))}

\* board.result(), claim_draw left False
Result(pos) ==
    IF IsCheckmate(pos) THEN (IF pos.turn = WHITE THEN "0-1" ELSE "1-0")
    ELSE IF IsGameOver(pos) THEN "1/2-1/2"
    ELSE "*"

\* board.push(move): the position is replaced, the move stack grows
Push(b, uci) ==
    [pos |-> LegalMove(b.pos, uci).to,
     stack |-> Append(b.stack, [from |-> b.pos, move |-> uci])]

\* (mutant) the position is taken back and the move stays on the move stack
Pop_KeepsMoveStack(b) ==
    [pos |-> b.stack[Len(b.stack)].from, stack |-> b.stack]

\* board.pop(): the last move is taken back
Pop(b) ==
    [pos |-> b.stack[Len(b.stack)].from, stack |-> SubSeq(b.stack, 1, Len(b.stack) - 1)]

\* ---------------------------------------------------------- evaluator

evaluate_material(pos) == pos.comp.material
evaluate_piece_positions(pos, endgame) == pos.comp.piece_position
evaluate_pawn_structure(pos) == pos.comp.pawn_structure
evaluate_king_safety(pos, endgame) == IF endgame THEN 0 ELSE pos.comp.king_safety
evaluate_mobility(pos) == pos.comp.mobility
evaluate_center_control(pos) == pos.comp.center_control
evaluate_rook_placement(pos) == pos.comp.rook_placement
evaluate_bishop_pair(pos) == pos.comp.bishop_pair

\* is_endgame(board)
is_endgame(pos) ==
    LET c == pos.pieces
        queens == c.white_queens + c.black_queens
        minor_pieces == c.white_knights + c.white_bishops
                        + c.black_knights + c.black_bishops
    IN  queens = 0 \/ (queens = 2 /\ minor_pieces <= 2)

evaluate_board(pos) ==
    IF IsCheckmate(pos)
    THEN (IF pos.turn = WHITE THEN -MATE ELSE MATE)
    ELSE IF IsStalemate(pos) \/ IsInsufficientMaterial(pos)
            \/ IsFiftyMoves(pos) \/ IsRepetition(pos)
    THEN 0
    ELSE LET endgame == is_endgame(pos)
         IN  evaluate_material(pos)
             + evaluate_piece_positions(pos, endgame)
             + evaluate_pawn_structure(pos)
             + evaluate_king_safety(pos, endgame)
             + evaluate_mobility(pos)
             + evaluate_center_control(pos)
             + evaluate_rook_placement(pos)
             + evaluate_bishop_pair(pos)

get_evaluation_breakdown(pos) ==
    LET endgame == is_endgame(pos)
    IN  [material |-> evaluate_material(pos),
         piece_position |-> evaluate_piece_positions(pos, endgame),
         pawn_structure |-> evaluate_pawn_structure(pos),
         king_safety |-> evaluate_king_safety(pos, endgame),
         mobility |-> evaluate_mobility(pos),
         center_control |-> evaluate_center_control(pos),
         rook_placement |-> evaluate_rook_placement(pos),
         bishop_pair |-> evaluate_bishop_pair(pos),
         total |-> evaluate_board(pos),
         is_endgame |-> endgame]

\* board.turn = color
SetTurn(pos, color) == [pos EXCEPT !.turn = color]

\* (mutant) the turn is left as the mobility count set it last
RestoreTurn_Skipped(pos, original_turn) == pos

\* board.turn = original_turn, the last assignment of evaluate_mobility
RestoreTurn(pos, original_turn) == SetTurn(pos, original_turn)

\* The board as evaluate_mobility leaves it: the turn is saved, set to White
\* and to Black for the two counts of legal moves, and set back.
evaluate_mobility_leaves(pos) ==
    LET original_turn == pos.turn
        counted_white == SetTurn(pos, WHITE)
        counted_black == SetTurn(counted_white, BLACK)
    IN  RestoreTurn(counted_black, original_turn)

\* The board as evaluate_board leaves it: of what it calls, evaluate_mobility
\* alone assigns to the board, and is not called on a checkmate or a draw.
evaluate_board_leaves(pos) ==
    IF IsCheckmate(pos) \/ IsStalemate(pos) \/ IsInsufficientMaterial(pos)
       \/ IsFiftyMoves(pos) \/ IsRepetition(pos)
    THEN pos
    ELSE evaluate_mobility_leaves(pos)

\* The board as get_evaluation_breakdown leaves it: evaluate_mobility for
\* the 'mobility' entry, then evaluate_board for the 'total' entry.
get_evaluation_breakdown_leaves(pos) ==
    evaluate_board_leaves(evaluate_mobility_leaves(pos))

\* -------------------------------------------------------- move orderer

RECURSIVE ThreatBonus(_)
ThreatBonus(attacked) ==
    IF attacked = <<>> THEN 0
    ELSE 100 + (PIECE_VALUES(Head(attacked)) \div 10) + ThreatBonus(Tail(attacked))

\* score_move(board, move), for the side to move `turn`
score_move(turn, m) ==
    (IF m.is_check THEN 10000 ELSE 0)
    + (IF IsCapture(m) /\ m.victim # 0
       THEN 5000 + (PIECE_VALUES(m.victim) * 10 - PIECE_VALUES(m.piece)) ELSE 0)
    + (IF IsCapture(m) /\ m.en_passant THEN 5000 + PIECE_VALUES(PAWN) * 10 ELSE 0)
    + (IF m.promotion # 0 THEN 4000 + PIECE_VALUES(m.promotion) ELSE 0)
    + (IF ~IsCapture(m) /\ ~m.is_check /\ m.piece # 0 THEN ThreatBonus(m.attacked) ELSE 0)
    + (IF m.piece = PAWN
       THEN (IF turn = WHITE THEN m.to_rank * 5 ELSE (7 - m.to_rank) * 5) ELSE 0)
    + (IF m.castling THEN 500 ELSE 0)
    + (IF m.to_file \in {3, 4} /\ m.to_rank \in {3, 4} THEN 50 ELSE 0)

\* (mutant) the transposition-table move gets no bonus
OrderScore_NoHint(turn, m, tt_move) == score_move(turn, m)

\* The score order_moves sorts by: score_move plus the bonus of the
\* transposition-table move.
OrderScore(turn, m, tt_move) ==
    score_move(turn, m)
    + (IF tt_move # NoMove /\ m.uci = tt_move THEN TTMoveBonus ELSE 0)

\* list.sort(key, reverse=True): descending by key, and stable: elements of
\* equal key keep their order.  Rank(i) is the place of the i-th element.
SortDescending(seq, key) ==
    LET n == Len(seq)
        Rank(i) == Cardinality({j \in 1..n : key[j] > key[i]})
                   + Cardinality({j \in 1..i : key[j] = key[i]})
    IN  [k \in 1..n |-> seq[CHOOSE i \in 1..n : Rank(i) = k]]

\* order_moves(board, moves, tt_move)
order_moves(turn, moves, tt_move) ==
    SortDescending(moves, [i \in 1..Len(moves) |-> OrderScore(turn, moves[i], tt_move)])

\* is_tactical_move(board, move)
is_tactical_move(m) == IsCapture(m) \/ m.promotion # 0 \/ m.is_check

\* get_quiescence_moves(board)
get_quiescence_moves(p) ==
    order_moves(Turn(p), SelectSeq(LegalMoves(p), is_tactical_move), NoMove)

\* ---------------------------------------------------- engine: state

VARIABLES
    max_depth,            \* self.max_depth
    time_limit,           \* self.time_limit
    nodes_searched,       \* self.nodes_searched
    time_exceeded,        \* self.time_exceeded
    transposition_table,  \* self.transposition_table: board hash -> entry
    stats,                \* self.stats
    elapsed,              \* time.time() - self.start_time, as last read
    board,                \* the chess.Board under search: position and move stack
    stack,                \* the frames of minimax and quiescence_search, deepest last
    ret,                  \* the value returned by the call that has just returned
    id,                   \* the frame of iterative_deepening and of its caller
    result,               \* what the last top-level call returned
    calls,                \* the number of top-level calls made so far
    shown,                \* what get_evaluation_breakdown last returned, and for which position
    obs,                  \* history of the run, read by the properties only
    play                  \* the frame of play_game

vars ==
    << max_depth, time_limit, nodes_searched, time_exceeded, transposition_table,
       stats, elapsed, board, stack, ret, id, result, calls, shown, obs, play >>

\* The time budgets an engine is constructed with, in clock ticks.
TimeLimits == {0, 1}

\* What the clock can read next: time does not run backwards; readings past
\* the budget are all alike and are capped one tick above it.
ClockReadings == elapsed .. (time_limit + 1)

Max(a, b) == IF a >= b THEN a ELSE b
Min(a, b) == IF a <= b THEN a ELSE b
Abs(a) == IF a >= 0 THEN a ELSE -a

NoBoard == [pos |-> "None", stack |-> <<>>]
\* fn, score, move: the function that returned and what it returned; for
\* the properties: entry, the board as it was when the function was called,
\* depth, its depth argument, and pushes, the moves it pushed while it ran
NoRet ==
    [fn |-> "none", score |-> 0, move |-> NoMove, entry |-> NoBoard,
     depth |-> 0, pushes |-> 0]
NoResult ==
    [api |-> "none", move |-> NoMove, score |-> 0, depth |-> 0,
     stats |-> <<>>, top_moves |-> <<>>]
NoId ==
    [active |-> FALSE, depth |-> 0, best_move |-> NoMove,
     best_score |-> 0, maximizing |-> FALSE, old_depth |-> 0]
NoShown == [pos |-> <<>>, breakdown |-> <<>>]
\* play_game has not been called
NoPlay == [pc |-> "none"]

\* The stats dictionary of __init__ and of reset_stats; the keys 'time' and
\* 'nps' are absent (-1) until iterative_deepening sets them.
FreshStats ==
    [nodes |-> 0, tt_hits |-> 0, cutoffs |-> 0, depth_reached |-> 0,
     time |-> -1, nps |-> -1]

\* (mutant) a key that tells the side to move and nothing else
get_board_hash_TurnOnly(b) == IF Game[b.pos].turn = TRUE THEN "w" ELSE "b"

\* get_board_hash(board): board.fen(), which does not hold the move stack
get_board_hash(b) == b.pos

MinimaxFrame(depth, alpha, beta, maximizing, b) ==
    [fn |-> "minimax", pc |-> "entry", depth |-> depth, alpha |-> alpha,
     beta |-> beta, maximizing |-> maximizing, board_hash |-> "None",
     moves |-> <<>>, i |-> 0, best_move |-> NoMove, best_eval |-> 0, entry |-> b]

QuiescenceFrame(alpha, beta, depth, b) ==
    [fn |-> "quiescence_search", pc |-> "entry", depth |-> depth, alpha |-> alpha,
     beta |-> beta, maximizing |-> Game[b.pos].turn = WHITE, board_hash |-> "None",
     moves |-> <<>>, i |-> 0, best_move |-> NoMove, best_eval |-> 0, entry |-> b]

Top == stack[Len(stack)]
Below == SubSeq(stack, 1, Len(stack) - 1)

\* the top frame is about to run from its first line
AtEntry(fn) ==
    stack # <<>> /\ ret = NoRet /\ Top.fn = fn /\ Top.pc = "entry"

\* the call made by the top frame has returned
Returned(fn, pc) ==
    stack # <<>> /\ ret # NoRet /\ Top.fn = fn /\ Top.pc = pc

\* no call is running
Idle == stack = <<>> /\ ~id.active /\ ret = NoRet

\* the top frame f returns (score, move) to its caller
Return(f, score, move) ==
    /\ stack' = Below
    /\ ret' = [fn |-> f.fn, score |-> score, move |-> move, entry |-> f.entry,
               depth |-> f.depth, pushes |-> f.i]

\* the top frame, now f, calls a function whose frame is g
Call(f, g) ==
    /\ stack' = Append(Append(Below, f), g)
    /\ ret' = NoRet

\* if time.time() - self.start_time > self.time_limit
TimeOver(e) == e > time_limit

\* (mutant) the table is replaced by one that holds the new entry alone
Store_Replaces(table, key, entry) == [k \in {key} |-> entry]

\* dict[key] = value
Store(table, key, entry) ==
    [k \in DOMAIN table \cup {key} |-> IF k = key THEN entry ELSE table[k]]

\* (mutant) no entry is ever deep enough
TTUsable_Never(table, h, depth) == FALSE

\* (mutant) an entry of any depth is used
TTUsable_AnyDepth(table, h, depth) == h \in DOMAIN table

\* (mutant) only an entry of exactly the remaining depth is used
TTUsable_ExactDepth(table, h, depth) ==
    h \in DOMAIN table /\ table[h].depth = depth

\* the probe of the transposition table: an entry for the hash whose
\* depth is at least the remaining depth
TTUsable(table, h, depth) ==
    h \in DOMAIN table /\ table[h].depth >= depth

\* the move-ordering hint: the best move of any entry for the hash
TTMove(table, h) ==
    IF h \in DOMAIN table THEN table[h].best_move ELSE NoMove

\* (mutant) the mate score without the remaining depth
MateScore_NoDepth(pos, depth) == IF pos.turn = WHITE THEN -MATE ELSE MATE

\* the score of a checkmated node: the mate score and the remaining depth
MateScore(pos, depth) ==
    IF pos.turn = WHITE THEN -MATE - depth ELSE MATE + depth

\* (mutant) the loop goes on whatever the flag
Aborted_Ignored(exceeded) == FALSE

\* if self.time_exceeded: the test of the move loop of minimax after the
\* recursive call has returned
Aborted(exceeded) == exceeded

\* -------------------------------------------------- history variable

NoComplete == [depth |-> 0, score |-> 0, move |-> NoMove]
NoPrev == [root |-> "None", nodes |-> 0, aborted |-> FALSE, cold |-> FALSE, max_depth |-> 0]

\* cold:     the table was empty when the running top-level call began
\* root:     the board the running (or last) top-level call was given
\* depth:    the depth argument of a direct call of minimax
\* over:     a node of the running search has read a time over the budget
\* visited:  the nodes minimax and quiescence_search have entered in the
\*           running search
\* complete: the last iteration of the running search whose minimax call
\*           returned while time_exceeded was false
\* last:     the search that returned last: its root, the nodes it counted,
\*           whether it was aborted, whether it began on an empty table, and
\*           the max_depth it ran with; forgotten when the table is cleared
\* prev:     the same of the search before the running (or last) one
NoObs ==
    [cold |-> FALSE, root |-> NoBoard, depth |-> 0, over |-> FALSE, visited |-> 0,
     complete |-> NoComplete, last |-> NoPrev, prev |-> NoPrev]

Init ==
    /\ max_depth \in 1..MaxDepth
    /\ time_limit \in TimeLimits
    /\ nodes_searched = 0
    /\ time_exceeded = FALSE
    /\ transposition_table = <<>>
    /\ stats = FreshStats
    /\ elapsed = 0
    /\ board = NoBoard
    /\ stack = <<>>
    /\ ret = NoRet
    /\ id = NoId
    /\ result = NoResult
    /\ calls = 0
    /\ shown = NoShown
    /\ obs = NoObs
    /\ play = NoPlay

\* ------------------------------------------------------------ minimax

\* lines 118-158, and the first turn of the loop up to its recursive call
MinimaxEnter(e) ==
    /\ AtEntry("minimax")
    /\ e \in ClockReadings
    /\ LET f == Top
           pos == Game[board.pos]
           over == TimeOver(e)
           h == get_board_hash(board)
           hit == ~over /\ TTUsable(transposition_table, h, f.depth)
           moves == Names(order_moves(pos.turn, LegalMoves(board.pos),
                                      TTMove(transposition_table, h)))
           g == [f EXCEPT !.pc = "loop", !.board_hash = h, !.moves = moves, !.i = 1,
                          !.best_move = moves[1],
                          !.best_eval = IF f.maximizing THEN -Inf ELSE Inf]
       IN  /\ elapsed' = e
           /\ nodes_searched' = nodes_searched + 1
           /\ stats' = [stats EXCEPT !.nodes = @ + 1,
                                     !.tt_hits = IF hit THEN @ + 1 ELSE @]
           /\ time_exceeded' = (time_exceeded \/ over)
           /\ obs' = [obs EXCEPT !.over = @ \/ over, !.visited = @ + 1]
           /\ IF over
              THEN Return(f, evaluate_board(pos), NoMove) /\ UNCHANGED board
              ELSE IF hit
              THEN Return(f, transposition_table[h].score,
                          transposition_table[h].best_move) /\ UNCHANGED board
              ELSE IF IsGameOver(pos)
              THEN Return(f, IF IsCheckmate(pos) THEN MateScore(pos, f.depth) ELSE 0,
                          NoMove) /\ UNCHANGED board
              ELSE IF f.depth = 0
              THEN Call([f EXCEPT !.pc = "leaf"],
                        QuiescenceFrame(f.alpha, f.beta, 0, board)) /\ UNCHANGED board
              ELSE IF moves = <<>>
              THEN Return(f, evaluate_board(pos), NoMove) /\ UNCHANGED board
              ELSE /\ board' = Push(board, moves[1])
                   /\ Call(g, MinimaxFrame(f.depth - 1, f.alpha, f.beta,
                                           ~f.maximizing, board'))
    /\ UNCHANGED << max_depth, time_limit, transposition_table, id, result, calls, shown, play >>

\* line 146: quiescence_search has returned to the depth-0 node
MinimaxLeaf ==
    /\ Returned("minimax", "leaf")
    /\ Return(Top, ret.score, NoMove)
    /\ UNCHANGED << max_depth, time_limit, nodes_searched, time_exceeded,
                    transposition_table, stats, elapsed, board, id, result, calls,
                    shown, play, obs >>

\* lines 166-187 and 195-216: the recursive call has returned; the rest of
\* this turn of the loop, and the next turn up to its recursive call or
\* the end of the function
MinimaxResume ==
    /\ Returned("minimax", "loop")
    /\ LET f == Top
           move == f.moves[f.i]
           eval_score == ret.score
           popped == Pop(board)
           better == IF f.maximizing THEN eval_score > f.best_eval
                                     ELSE eval_score < f.best_eval
           best_eval == IF better THEN eval_score ELSE f.best_eval
           best_move == IF better THEN move ELSE f.best_move
           alpha == IF f.maximizing THEN Max(f.alpha, eval_score) ELSE f.alpha
           beta == IF f.maximizing THEN f.beta ELSE Min(f.beta, eval_score)
           cutoff == beta <= alpha
           g == [f EXCEPT !.i = @ + 1, !.best_eval = best_eval,
                          !.best_move = best_move, !.alpha = alpha, !.beta = beta]
       IN  IF Aborted(time_exceeded)
           THEN /\ board' = popped
                /\ Return(f, f.best_eval, f.best_move)
                /\ UNCHANGED << transposition_table, stats >>
           ELSE IF cutoff \/ f.i = Len(f.moves)
           THEN /\ board' = popped
                /\ stats' = [stats EXCEPT !.cutoffs = IF cutoff THEN @ + 1 ELSE @]
                /\ transposition_table' =
                       Store(transposition_table, f.board_hash,
                             [score |-> best_eval, depth |-> f.depth,
                              best_move |-> best_move])
                /\ Return(f, best_eval, best_move)
           ELSE /\ board' = Push(popped, f.moves[f.i + 1])
                /\ Call(g, MinimaxFrame(f.depth - 1, alpha, beta, ~f.maximizing, board'))
                /\ UNCHANGED << transposition_table, stats >>
    /\ UNCHANGED << max_depth, time_limit, nodes_searched, time_exceeded, elapsed,
                    id, result, calls, shown, play, obs >>

\* -------------------------------------------------- quiescence_search

\* (mutant) the cap is one ply too deep
QuiescenceCapped_OnePlyLate(depth) == depth > QuiescenceLimit + 1

\* if depth > 6: return stand_pat
QuiescenceCapped(depth) == depth > QuiescenceLimit

\* lines 52-84 and 93-95: up to the first recursive call
QuiescenceEnter(e) ==
    /\ AtEntry("quiescence_search")
    /\ e \in ClockReadings
    /\ LET f == Top
           pos == Game[board.pos]
           over == TimeOver(e)
           stand_pat == evaluate_board(pos)
           white == pos.turn = WHITE
           alpha == IF white THEN Max(f.alpha, stand_pat) ELSE f.alpha
           beta == IF white THEN f.beta ELSE Min(f.beta, stand_pat)
           tactical_moves == Names(get_quiescence_moves(board.pos))
           g == [f EXCEPT !.pc = "loop", !.alpha = alpha, !.beta = beta,
                          !.moves = tactical_moves, !.i = 1]
       IN  /\ elapsed' = e
           /\ nodes_searched' = nodes_searched + 1
           /\ stats' = [stats EXCEPT !.nodes = @ + 1]
           /\ time_exceeded' = (time_exceeded \/ over)
           /\ obs' = [obs EXCEPT !.over = @ \/ over, !.visited = @ + 1]
           /\ IF over
              THEN Return(f, evaluate_board(pos), NoMove) /\ UNCHANGED board
              ELSE IF white /\ stand_pat >= f.beta
              THEN Return(f, f.beta, NoMove) /\ UNCHANGED board
              ELSE IF ~white /\ stand_pat <= f.alpha
              THEN Return(f, f.alpha, NoMove) /\ UNCHANGED board
              ELSE IF QuiescenceCapped(f.depth)
              THEN Return(f, stand_pat, NoMove) /\ UNCHANGED board
              ELSE IF tactical_moves = <<>>
              THEN Return(f, IF white THEN alpha ELSE beta, NoMove) /\ UNCHANGED board
              ELSE /\ board' = Push(board, tactical_moves[1])
                   /\ Call(g, QuiescenceFrame(alpha, beta, f.depth + 1, board'))
    /\ UNCHANGED << max_depth, time_limit, transposition_table, id, result, calls, shown, play >>

\* lines 85-91 and 96-102: the recursive call has returned; the rest of this
\* turn of the loop, and the next turn up to its recursive call or the end
QuiescenceResume ==
    /\ Returned("quiescence_search", "loop")
    /\ LET f == Top
           score == ret.score
           white == f.maximizing
           popped == Pop(board)
           alpha == IF white THEN Max(f.alpha, score) ELSE f.alpha
           beta == IF white THEN f.beta ELSE Min(f.beta, score)
           g == [f EXCEPT !.i = @ + 1, !.alpha = alpha, !.beta = beta]
       IN  IF white /\ score >= f.beta
           THEN board' = popped /\ Return(f, f.beta, NoMove)
           ELSE IF ~white /\ score <= f.alpha
           THEN board' = popped /\ Return(f, f.alpha, NoMove)
           ELSE IF f.i = Len(f.moves)
           THEN board' = popped /\ Return(f, IF white THEN alpha ELSE beta, NoMove)
           ELSE /\ board' = Push(popped, f.moves[f.i + 1])
                /\ Call(g, QuiescenceFrame(alpha, beta, f.depth + 1, board'))
    /\ UNCHANGED << max_depth, time_limit, nodes_searched, time_exceeded,
                    transposition_table, stats, elapsed, id, result, calls, shown, play, obs >>

\* ------------------------------------------------ iterative_deepening

\* (mutant) the node count survives the reset
reset_stats_KeepsNodes(s) == [FreshStats EXCEPT !.nodes = s.nodes]

\* reset_stats(): the dictionary it assigns to self.stats
reset_stats(s) == FreshStats

\* if not self.time_exceeded and move
Adopt(exceeded, move) == ~exceeded /\ move # NoMove

\* (mutant) no score ends the loop early
MateFound_Never(score) == FALSE

\* if abs(score) > 90000: break
MateFound(score) == Abs(score) > MateThreshold

\* get_top_moves(board, n=5): every legal move with the static evaluation
\* of the position it leads to, best first for the side to move
get_top_moves(p, n) ==
    LET moves == LegalMoves(p)
        sign == IF Turn(p) = WHITE THEN 1 ELSE -1
        sorted == SortDescending(
                      [i \in 1..Len(moves) |->
                          << moves[i].uci, evaluate_board(Game[moves[i].to]) >>],
                      [i \in 1..Len(moves) |-> sign * evaluate_board(Game[moves[i].to])])
    IN  SubSeq(sorted, 1, Min(n, Len(sorted)))

\* A top-level search is called on a board with an empty move stack:
\* iterative_deepening(board), get_best_move(board) or
\* analyze_position(board, depth), where depth 0 stands for None.  The three
\* run the same search; a depth that is not None is analyze_position's, and
\* otherwise which of them was called shows only in what is returned, and
\* is chosen there.  Lines 226-244 (and 279-283): up to the call of minimax
\* at depth 1.
SearchBegin(root, depth) ==
    /\ Idle
    /\ calls < MaxCalls
    /\ depth \in 0..MaxDepth
    /\ calls' = calls + 1
    /\ max_depth' = IF depth # 0 THEN depth ELSE max_depth
    /\ stats' = reset_stats(stats)
    /\ nodes_searched' = 0
    /\ time_exceeded' = FALSE
    /\ elapsed' = 0
    /\ board' = [pos |-> root, stack |-> <<>>]
    /\ id' = [active |-> TRUE, depth |-> 1, best_move |-> NoMove,
              best_score |-> 0, maximizing |-> Turn(root) = WHITE,
              old_depth |-> IF depth # 0 THEN max_depth ELSE 0]
    /\ stack' = << MinimaxFrame(1, -Inf, Inf, Turn(root) = WHITE, board') >>
    /\ ret' = NoRet
    /\ result' = NoResult
    /\ obs' = [obs EXCEPT !.cold = transposition_table = <<>>, !.root = board',
                          !.depth = 0, !.over = FALSE, !.visited = 0,
                          !.complete = NoComplete, !.last = NoPrev, !.prev = obs.last]
    /\ UNCHANGED << time_limit, transposition_table, shown, play >>

\* a top-level search of one of the roots
SearchStart(root, depth) == root \in Roots /\ SearchBegin(root, depth)

\* lines 246-253 and 234-244: minimax has returned to the loop of
\* iterative_deepening, which goes on to the next depth
SearchDeepen ==
    /\ stack = <<>> /\ id.active /\ ret # NoRet
    /\ LET adopt == Adopt(time_exceeded, ret.move)
           depth == id.depth + 1
       IN  /\ ~MateFound(ret.score)
           /\ depth <= max_depth
           /\ ~time_exceeded
           /\ id' = [id EXCEPT !.depth = depth,
                               !.best_move = IF adopt THEN ret.move ELSE @,
                               !.best_score = IF adopt THEN ret.score ELSE @]
           /\ stats' = [stats EXCEPT !.depth_reached = IF adopt THEN id.depth ELSE @]
           /\ obs' = [obs EXCEPT !.complete =
                         [depth |-> id.depth, score |-> ret.score, move |-> ret.move]]
           /\ stack' = << MinimaxFrame(depth, -Inf, Inf, id.maximizing, board) >>
           /\ ret' = NoRet
    /\ UNCHANGED << max_depth, time_limit, nodes_searched, time_exceeded,
                    transposition_table, elapsed, board, result, calls, shown, play >>

\* lines 246-259 (and 270, 285-301): minimax has returned to the loop of
\* iterative_deepening, which ends: on a mate score, after the last depth
\* or because the time is over; the search returns to its caller
SearchFinish(api, e) ==
    /\ stack = <<>> /\ id.active /\ ret # NoRet
    /\ e \in ClockReadings
    /\ api \in IF id.old_depth # 0 THEN {"analyze_position"}
               ELSE {"iterative_deepening", "get_best_move", "analyze_position"}
    /\ LET adopt == Adopt(time_exceeded, ret.move)
           best_move == IF adopt THEN ret.move ELSE id.best_move
           best_score == IF adopt THEN ret.score ELSE id.best_score
           final == [stats EXCEPT
                        !.depth_reached = IF adopt THEN id.depth ELSE @,
                        !.time = e,
                        !.nps = IF e > 0 THEN nodes_searched \div e ELSE 0]
       IN  /\ MateFound(ret.score) \/ id.depth + 1 > max_depth \/ time_exceeded
           /\ elapsed' = e
           /\ stats' = final
           /\ result' =
                 IF api = "get_best_move"
                 THEN [NoResult EXCEPT !.api = api, !.move = best_move]
                 ELSE [api |-> api, move |-> best_move, score |-> best_score,
                       depth |-> final.depth_reached, stats |-> final,
                       top_moves |-> IF api = "analyze_position"
                                     THEN get_top_moves(board.pos, 5) ELSE <<>>]
           /\ max_depth' = IF id.old_depth # 0 THEN id.old_depth ELSE max_depth
           /\ obs' = [obs EXCEPT
                         !.complete = IF time_exceeded THEN @
                                      ELSE [depth |-> id.depth, score |-> ret.score,
                                            move |-> ret.move],
                         !.last = [root |-> board.pos, nodes |-> final.nodes,
                                   aborted |-> time_exceeded, cold |-> obs.cold,
                                   max_depth |-> max_depth]]
    /\ id' = NoId
    /\ ret' = NoRet
    /\ UNCHANGED << time_limit, nodes_searched, time_exceeded, transposition_table,
                    board, stack, calls, shown, play >>

\* ------------------------------------------- the other engine methods

\* reset_stats(), called from outside a search
ResetStats ==
    /\ Idle
    /\ calls < MaxCalls
    /\ calls' = calls + 1
    /\ stats' = reset_stats(stats)
    /\ nodes_searched' = 0
    /\ time_exceeded' = FALSE
    /\ UNCHANGED << max_depth, time_limit, transposition_table, elapsed, board,
                    stack, ret, id, result, shown, play, obs >>

\* clear_transposition_table(), as reset_game of the application calls it
ClearTranspositionTable ==
    /\ Idle
    /\ calls < MaxCalls
    /\ calls' = calls + 1
    /\ transposition_table' = <<>>
    /\ obs' = [obs EXCEPT !.last = NoPrev, !.prev = NoPrev]
    /\ UNCHANGED << max_depth, time_limit, nodes_searched, time_exceeded, stats,
                    elapsed, board, stack, ret, id, result, shown, play >>

SearchStep ==
    \/ \E e \in ClockReadings : MinimaxEnter(e)
    \/ MinimaxLeaf
    \/ MinimaxResume
    \/ \E e \in ClockReadings : QuiescenceEnter(e)
    \/ QuiescenceResume

Next ==
    \/ \E root \in Roots, depth \in 0..MaxDepth : SearchStart(root, depth)
    \/ SearchStep
    \/ SearchDeepen
    \/ \E api \in {"iterative_deepening", "get_best_move", "analyze_position"},
          e \in ClockReadings : SearchFinish(api, e)
    \/ ResetStats
    \/ ClearTranspositionTable

Spec == Init /\ [][Next]_vars


\* ------------------------------- a search of a root without moves

\* a top-level search of a position without legal moves that the rules
\* engine does not report as game over
SearchStartDefensive(root, depth) ==
    root \in DefensivePositions /\ SearchBegin(root, depth)

NextDefensive ==
    \/ \E root \in DefensivePositions, depth \in 0..MaxDepth :
           SearchStartDefensive(root, depth)
    \/ Next

SpecDefensive == Init /\ [][NextDefensive]_vars

\* ------------------------------------------- a direct call of minimax

\* minimax(board, depth, -inf, +inf, board.turn == WHITE) called on a newly
\* constructed engine, with start_time set to the time of the call
MinimaxCall(root, depth) ==
    /\ Idle
    /\ calls = 0
    /\ root \in Positions
    /\ depth \in 1..MaxDirectDepth
    /\ calls' = 1
    /\ elapsed' = 0
    /\ board' = [pos |-> root, stack |-> <<>>]
    /\ stack' = << MinimaxFrame(depth, -Inf, Inf, Turn(root) = WHITE, board') >>
    /\ ret' = NoRet
    /\ obs' = [obs EXCEPT !.cold = transposition_table = <<>>, !.root = board',
                          !.depth = depth]
    /\ UNCHANGED << max_depth, time_limit, nodes_searched, time_exceeded,
                    transposition_table, stats, id, result, shown, play >>

NextMinimax ==
    \/ \E root \in Positions, depth \in 1..MaxDirectDepth : MinimaxCall(root, depth)
    \/ SearchStep

SpecMinimax == Init /\ [][NextMinimax]_vars

\* the direct call of minimax has returned
DirectDone == obs.depth > 0 /\ stack = <<>> /\ ret # NoRet

\* ------------------------------------- a call of the evaluator alone

\* The values an evaluation component takes.
ComponentValues == {-1, 2}

Statuses ==
    {"play", "checkmate", "stalemate", "insufficient", "fifty", "threefold",
     "seventyfive", "fivefold"}

\* The positions given to the evaluator: either side to move, every
\* terminal status, either phase (a middlegame, an endgame), every
\* combination of component values.
EvaluatedPositions ==
    [turn : BOOLEAN, status : Statuses, pieces : {MiddlegamePieces, BareKings},
     comp : [material : ComponentValues, piece_position : ComponentValues,
             pawn_structure : ComponentValues, king_safety : ComponentValues,
             mobility : ComponentValues, center_control : ComponentValues,
             rook_placement : ComponentValues, bishop_pair : ComponentValues]]

\* get_evaluation_breakdown(board), as the application shows it for the
\* board on display
ShowBreakdown(pos) ==
    /\ shown = NoShown
    /\ ret = NoRet
    /\ shown' = [pos |-> pos, breakdown |-> get_evaluation_breakdown(pos)]
    /\ board' = get_evaluation_breakdown_leaves(pos)
    /\ UNCHANGED << max_depth, time_limit, nodes_searched, time_exceeded,
                    transposition_table, stats, elapsed, stack, ret, id,
                    result, calls, obs, play >>

\* evaluate_mobility(board) called on its own: ret holds the value returned
\* and the board given, board is the board as the call leaves it
EvaluateMobility(pos) ==
    /\ shown = NoShown
    /\ ret = NoRet
    /\ ret' = [NoRet EXCEPT !.fn = "evaluate_mobility",
                            !.score = evaluate_mobility(pos), !.entry = pos]
    /\ board' = evaluate_mobility_leaves(pos)
    /\ UNCHANGED << max_depth, time_limit, nodes_searched, time_exceeded,
                    transposition_table, stats, elapsed, stack, id, result,
                    calls, shown, play, obs >>

\* evaluate_board(board) called on its own
EvaluateBoard(pos) ==
    /\ shown = NoShown
    /\ ret = NoRet
    /\ ret' = [NoRet EXCEPT !.fn = "evaluate_board",
                            !.score = evaluate_board(pos), !.entry = pos]
    /\ board' = evaluate_board_leaves(pos)
    /\ UNCHANGED << max_depth, time_limit, nodes_searched, time_exceeded,
                    transposition_table, stats, elapsed, stack, id, result,
                    calls, shown, play, obs >>

\* no function of the evaluator has been called yet
EvaluatorIdle == shown = NoShown /\ ret = NoRet

NextEvaluate ==
    \/ EvaluatorIdle /\ \E pos \in EvaluatedPositions : ShowBreakdown(pos)
    \/ EvaluatorIdle /\ \E pos \in EvaluatedPositions : EvaluateMobility(pos)
    \/ EvaluatorIdle /\ \E pos \in EvaluatedPositions : EvaluateBoard(pos)

SpecEvaluate == Init /\ [][NextEvaluate]_vars

\* ------------------------------------------ a call of is_endgame alone

\* Most queens of one side, and most knights and most bishops of one side.
MaxQueens == 2
MaxMinors == 1

\* The piece counts given to is_endgame.
SamplePieces ==
    { Pieces(wq, bq, wn, wb, bn, bb) :
          wq \in 0..MaxQueens, bq \in 0..MaxQueens,
          wn \in 0..MaxMinors, wb \in 0..MaxMinors,
          bn \in 0..MaxMinors, bb \in 0..MaxMinors }

\* is_endgame(board) called on its own
IsEndgame(pieces) ==
    /\ shown' = [fn |-> "is_endgame", pieces |-> pieces,
                 value |-> is_endgame([pieces |-> pieces])]
    /\ UNCHANGED << max_depth, time_limit, nodes_searched, time_exceeded,
                    transposition_table, stats, elapsed, board, stack, ret, id,
                    result, calls, obs, play >>

NextEndgame == shown = NoShown /\ \E pieces \in SamplePieces : IsEndgame(pieces)

SpecEndgame == Init /\ [][NextEndgame]_vars

\* --------------------------------- a call of the move orderer alone

\* Longest list of moves given to order_moves on its own.
MaxMoves == 3

\* The moves given to order_moves, all of them White's: a quiet move, a quiet check, a pawn that
\* takes a queen, promotes and gives check, the same without check, a king
\* that takes a pawn, a central pawn push, and a quiet move that leaves a
\* queen and a rook attacked.
SampleMoves ==
    { Move("quiet", "TW", KNIGHT, FALSE, 0, 2, 0),
      Move("check", "TW", QUEEN, TRUE, 0, 6, 6),
      [Move("takes_promotes_checks", "TW", PAWN, TRUE, QUEEN, 7, 1)
           EXCEPT !.promotion = QUEEN],
      [Move("takes_promotes", "TW", PAWN, FALSE, QUEEN, 7, 2)
           EXCEPT !.promotion = QUEEN],
      Move("king_takes_pawn", "TW", KING, FALSE, PAWN, 1, 5),
      Move("push", "TW", PAWN, FALSE, 0, 3, 3),
      [Move("threat", "TW", KNIGHT, FALSE, 0, 5, 5)
           EXCEPT !.attacked = << QUEEN, ROOK >>] }

\* The lists of distinct moves of SampleMoves, of length 1 to MaxMoves.
SampleLists ==
    { l \in UNION { [1..n -> SampleMoves] : n \in 1..MaxMoves } :
          \A i, j \in DOMAIN l : i # j => l[i] # l[j] }

\* The hints given with a list: none, a move of the list, a move not in it.
SampleHints(moves) == {NoMove, "absent"} \cup {moves[i].uci : i \in DOMAIN moves}

\* order_moves(board, moves, tt_move) called on its own
OrderMoves(turn, moves, tt_move) ==
    /\ shown' = [fn |-> "order_moves", turn |-> turn, moves |-> moves,
                 tt_move |-> tt_move, ordered |-> order_moves(turn, moves, tt_move)]
    /\ UNCHANGED << max_depth, time_limit, nodes_searched, time_exceeded,
                    transposition_table, stats, elapsed, board, stack, ret, id,
                    result, calls, obs, play >>

\* The move orderer called on its own on a new engine, or the engine used
\* as in Spec.
NextOrder ==
    \/ /\ shown = NoShown /\ Idle /\ calls = 0
       /\ \E turn \in {WHITE}, moves \in SampleLists :
              \E tt_move \in SampleHints(moves) : OrderMoves(turn, moves, tt_move)
    \/ shown = NoShown /\ Next

SpecOrder == Init /\ [][NextOrder]_vars

\* ----------------------------------------------------------- play_game

\* Largest max_moves given to play_game.
MaxPlayMoves == 3

\* chess.Board(): the initial position, no move made
NewBoard == [pos |-> "START", stack |-> <<>>]

\* The engines play_game is given.
Engines == {"RandomEngine", "GreedyEngine", "ChessEngine"}

\* GreedyEngine.get_best_move(board): the first of the legal moves whose
\* position evaluate_board scores best for the side to move; None without
\* legal moves
GreedyMove(p) ==
    LET moves == LegalMoves(p)
        score(i) == evaluate_board(Game[moves[i].to])
        better(a, b) == IF Turn(p) = WHITE THEN a > b ELSE a < b
    IN  IF moves = <<>> THEN NoMove
        ELSE moves[CHOOSE i \in 1..Len(moves) :
                      /\ \A j \in 1..Len(moves) : ~better(score(j), score(i))
                      /\ \A j \in 1..(i - 1) : better(score(i), score(j))].uci

\* What engine.get_best_move(board) can return.  RandomEngine: any legal
\* move, None without legal moves.  ChessEngine: the move of
\* iterative_deepening, a legal move of the board or None.
get_best_move(engine, p) ==
    CASE engine = "RandomEngine" ->
             IF LegalMoves(p) = <<>> THEN {NoMove} ELSE LegalNames(p)
      [] engine = "GreedyEngine" -> {GreedyMove(p)}
      [] engine = "ChessEngine" -> LegalNames(p) \cup {NoMove}

\* (mutant) White's engine is asked whoever is to move
EngineToMove_AlwaysWhite(turn) == "white_engine"

\* if board.turn == chess.WHITE: white_engine, else: black_engine
EngineToMove(turn) == IF turn = WHITE THEN "white_engine" ELSE "black_engine"

\* (mutant) the loop goes on until the game is over
PlayContinues_NoLimit(pos, move_list, max_moves) == ~IsGameOver(pos)

\* while not board.is_game_over() and len(move_list) < max_moves
PlayContinues(pos, move_list, max_moves) ==
    ~IsGameOver(pos) /\ Len(move_list) < max_moves

\* play_game(white_engine, black_engine, max_moves): lines 373-374.  asked
\* is read by the properties only: the calls of get_best_move made, each
\* with the engine asked and the move returned.
PlayGame(white_engine, black_engine, max_moves) ==
    /\ play = NoPlay
    /\ Idle
    /\ calls = 0
    /\ play' = [pc |-> "loop", white_engine |-> white_engine,
                black_engine |-> black_engine, max_moves |-> max_moves,
                move_list |-> <<>>, result |-> "None", asked |-> <<>>]
    /\ board' = NewBoard
    /\ UNCHANGED << max_depth, time_limit, nodes_searched, time_exceeded,
                    transposition_table, stats, elapsed, stack, ret, id,
                    result, calls, shown, obs >>

\* lines 376-389: one turn of the loop: the engine of the side to move is
\* asked for a move, which is appended to move_list and pushed; on None the
\* loop is left and play_game returns (lines 382-383, 391-392)
PlayTurn(move) ==
    /\ play.pc = "loop"
    /\ PlayContinues(Game[board.pos], play.move_list, play.max_moves)
    /\ LET side == EngineToMove(Turn(board.pos))
           asked == Append(play.asked, [side |-> side, move |-> move])
       IN  /\ move \in get_best_move(play[side], board.pos)
           /\ IF move = NoMove
              THEN /\ play' = [play EXCEPT !.pc = "returned", !.asked = asked,
                                           !.result = Result(Game[board.pos])]
                   /\ UNCHANGED board
              ELSE /\ play' = [play EXCEPT !.asked = asked,
                                           !.move_list = Append(@, move)]
                   /\ board' = Push(board, move)
    /\ UNCHANGED << max_depth, time_limit, nodes_searched, time_exceeded,
                    transposition_table, stats, elapsed, stack, ret, id,
                    result, calls, shown, obs >>

\* lines 376 and 391-392: the loop condition fails and play_game returns
\* (result, board, move_list)
PlayReturn ==
    /\ play.pc = "loop"
    /\ ~PlayContinues(Game[board.pos], play.move_list, play.max_moves)
    /\ play' = [play EXCEPT !.pc = "returned", !.result = Result(Game[board.pos])]
    /\ UNCHANGED << max_depth, time_limit, nodes_searched, time_exceeded,
                    transposition_table, stats, elapsed, board, stack, ret, id,
                    result, calls, shown, obs >>

NextPlay ==
    \/ \E white_engine \in Engines, black_engine \in Engines,
           max_moves \in 0..MaxPlayMoves :
           PlayGame(white_engine, black_engine, max_moves)
    \/ /\ play.pc = "loop"
       /\ \E move \in LegalNames(board.pos) \cup {NoMove} : PlayTurn(move)
    \/ PlayReturn

\* play_game runs on: each engine returns, and the loop takes its next turn
SpecPlay == Init /\ [][NextPlay]_vars /\ WF_vars(NextPlay)

\* ------------------------------------------------- a board of pieces

\* chess.SQUARES: a1 = 0, b1 = 1, ..., h8 = 63
SQUARES == 0..63

\* chess.square_file, chess.square_rank, chess.square
square_file(sq) == sq % 8
square_rank(sq) == sq \div 8
square(f, r) == r * 8 + f

\* What stands on a square: 0 for no piece, the piece type for a white
\* piece, minus the piece type for a black piece.
PieceCode(piece_type, color) == IF color = WHITE THEN piece_type ELSE -piece_type

\* board.pieces(piece_type, color): the squares of the pieces of a type and
\* colour, of a placement sqs
board_pieces(sqs, piece_type, color) ==
    {sq \in SQUARES : sqs[sq] = PieceCode(piece_type, color)}

\* the sum of the values of a function on the squares 0 .. sq
RECURSIVE SumTo(_, _)
SumTo(f, sq) == IF sq < 0 THEN 0 ELSE f[sq] + SumTo(f, sq - 1)

\* the sum of the values of a function on all squares
SumSquares(f) == SumTo(f, 63)

\* ------------------------------- evaluate_pawn_structure on the pieces

\* files_with_pawns.count(f)
PawnsOnFile(pawns, f) == Cardinality({sq \in pawns : square_file(sq) = f})

\* lines 166-170: what the doubled pawns of a colour add to the score
DoubledPawns(sqs, color) ==
    LET pawns == board_pieces(sqs, PAWN, color)
        multiplier == IF color = WHITE THEN 1 ELSE -1
    IN  SumTo([f \in 0..7 |->
                  IF PawnsOnFile(pawns, f) > 1
                  THEN -(20 * (PawnsOnFile(pawns, f) - 1) * multiplier) ELSE 0], 7)

\* lines 172-181: what the isolated pawns of a colour add to the score
IsolatedPawns(sqs, color) ==
    LET pawns == board_pieces(sqs, PAWN, color)
        multiplier == IF color = WHITE THEN 1 ELSE -1
        has_neighbor(sq) ==
            LET f == square_file(sq)
            IN  \/ f > 0 /\ PawnsOnFile(pawns, f - 1) > 0
                \/ f < 7 /\ PawnsOnFile(pawns, f + 1) > 0
    IN  SumSquares([sq \in SQUARES |->
                       IF sq \in pawns /\ ~has_neighbor(sq)
                       THEN -(15 * multiplier) ELSE 0])

\* lines 187-199: no enemy pawn on the file of the pawn or on a file next
\* to it stands further up the board (for White; further down for Black)
is_passed(sqs, sq, color) ==
    \A enemy_sq \in board_pieces(sqs, PAWN, ~color) :
        LET ef == square_file(enemy_sq)
            er == square_rank(enemy_sq)
        IN  Abs(ef - square_file(sq)) <= 1 =>
                IF color = WHITE THEN ~(er > square_rank(sq))
                                 ELSE ~(er < square_rank(sq))

\* lines 183-206: what the passed pawns of a colour add to the score:
\* 20 + (r * 10) * multiplier, and 20 + ((7 - r) * 10) * multiplier
PassedPawns(sqs, color) ==
    LET pawns == board_pieces(sqs, PAWN, color)
        multiplier == IF color = WHITE THEN 1 ELSE -1
    IN  SumSquares([sq \in SQUARES |->
                       IF sq \in pawns /\ is_passed(sqs, sq, color)
                       THEN (IF color = WHITE
                             THEN 20 + (square_rank(sq) * 10) * multiplier
                             ELSE 20 + ((7 - square_rank(sq)) * 10) * multiplier)
                       ELSE 0])

\* evaluate_pawn_structure(board), computed from the placement of the pieces
evaluate_pawn_structure_of(sqs) ==
    DoubledPawns(sqs, WHITE) + IsolatedPawns(sqs, WHITE) + PassedPawns(sqs, WHITE)
    + DoubledPawns(sqs, BLACK) + IsolatedPawns(sqs, BLACK) + PassedPawns(sqs, BLACK)

\* ------------------------- a call of evaluate_pawn_structure alone

\* Most pawns of one side, and the last file that has pawns.
MaxPawns == 2
MaxPawnFile == 2

\* the squares pawns are put on: files a to the last file, ranks 2 to 7
PawnSquares == {square(f, r) : f \in 0..MaxPawnFile, r \in 1..6}

\* the sets of at most n of the pawn squares
RECURSIVE PawnSets(_)
PawnSets(n) ==
    IF n = 0 THEN {{}}
    ELSE LET smaller == PawnSets(n - 1)
         IN  smaller \cup {s \cup {sq} : s \in smaller, sq \in PawnSquares}

\* A placement given to evaluate_pawn_structure: the kings on e1 and e8,
\* the white pawns, and the black pawns on the squares the white ones leave.
PawnPlacement(white_pawns, black_pawns) ==
    [sq \in SQUARES |->
        IF sq \in white_pawns THEN PieceCode(PAWN, WHITE)
        ELSE IF sq \in black_pawns THEN PieceCode(PAWN, BLACK)
        ELSE IF sq = square(4, 0) THEN PieceCode(KING, WHITE)
        ELSE IF sq = square(4, 7) THEN PieceCode(KING, BLACK)
        ELSE 0]

\* The placement mirrored: every piece goes to the square of its file on
\* the opposite rank and changes colour.
Mirrored(sqs) == [sq \in SQUARES |-> -sqs[square(square_file(sq), 7 - square_rank(sq))]]

\* evaluate_pawn_structure(board) called on a board and on its mirror image
EvaluatePawnStructure(sqs) ==
    /\ shown' = [fn |-> "evaluate_pawn_structure", squares |-> sqs,
                 value |-> evaluate_pawn_structure_of(sqs),
                 mirrored |-> evaluate_pawn_structure_of(Mirrored(sqs))]
    /\ UNCHANGED << max_depth, time_limit, nodes_searched, time_exceeded,
                    transposition_table, stats, elapsed, board, stack, ret, id,
                    result, calls, obs, play >>

\* every placement of at most MaxPawns pawns of each side
NextPawns ==
    /\ shown = NoShown
    /\ \E white_pawns \in PawnSets(MaxPawns), black_pawns \in PawnSets(MaxPawns) :
           EvaluatePawnStructure(PawnPlacement(white_pawns, black_pawns))

SpecPawns == Init /\ [][NextPawns]_vars

\* ------------------------------------- the evaluator on the pieces

\* KING_ENDGAME_TABLE, first entry a8, last entry h1
KING_ENDGAME_TABLE ==
    << -50, -40, -30, -20, -20, -30, -40, -50,
       -30, -20, -10,   0,   0, -10, -20, -30,
       -30, -10,  20,  30,  30,  20, -10, -30,
       -30, -10,  30,  40,  40,  30, -10, -30,
       -30, -10,  30,  40,  40,  30, -10, -30,
       -30, -10,  20,  30,  30,  20, -10, -30,
       -30, -30,   0,   0,   0,   0, -30, -30,
       -50, -30, -30, -30, -30, -30, -30, -50 >>

\* PST[piece_type]: the piece-square tables, first entry a8, last entry h1
PST(piece_type) ==
    LET
        PAWN_TABLE ==
            <<   0,   0,   0,   0,   0,   0,   0,   0,
                50,  50,  50,  50,  50,  50,  50,  50,
                10,  10,  20,  30,  30,  20,  10,  10,
                 5,   5,  10,  25,  25,  10,   5,   5,
                 0,   0,   0,  20,  20,   0,   0,   0,
                 5,  -5, -10,   0,   0, -10,  -5,   5,
                 5,  10,  10, -20, -20,  10,  10,   5,
                 0,   0,   0,   0,   0,   0,   0,   0 >>
        KNIGHT_TABLE ==
            << -50, -40, -30, -30, -30, -30, -40, -50,
               -40, -20,   0,   0,   0,   0, -20, -40,
               -30,   0,  10,  15,  15,  10,   0, -30,
               -30,   5,  15,  20,  20,  15,   5, -30,
               -30,   0,  15,  20,  20,  15,   0, -30,
               -30,   5,  10,  15,  15,  10,   5, -30,
               -40, -20,   0,   5,   5,   0, -20, -40,
               -50, -40, -30, -30, -30, -30, -40, -50 >>
        BISHOP_TABLE ==
            << -20, -10, -10, -10, -10, -10, -10, -20,
               -10,   0,   0,   0,   0,   0,   0, -10,
               -10,   0,   5,  10,  10,   5,   0, -10,
               -10,   5,   5,  10,  10,   5,   5, -10,
               -10,   0,  10,  10,  10,  10,   0, -10,
               -10,  10,  10,  10,  10,  10,  10, -10,
               -10,   5,   0,   0,   0,   0,   5, -10,
               -20, -10, -10, -10, -10, -10, -10, -20 >>
        ROOK_TABLE ==
            <<   0,   0,   0,   0,   0,   0,   0,   0,
                 5,  10,  10,  10,  10,  10,  10,   5,
                -5,   0,   0,   0,   0,   0,   0,  -5,
                -5,   0,   0,   0,   0,   0,   0,  -5,
                -5,   0,   0,   0,   0,   0,   0,  -5,
                -5,   0,   0,   0,   0,   0,   0,  -5,
                -5,   0,   0,   0,   0,   0,   0,  -5,
                 0,   0,   0,   5,   5,   0,   0,   0 >>
        QUEEN_TABLE ==
            << -20, -10, -10,  -5,  -5, -10, -10, -20,
               -10,   0,   0,   0,   0,   0,   0, -10,
               -10,   0,   5,   5,   5,   5,   0, -10,
                -5,   0,   5,   5,   5,   5,   0,  -5,
                 0,   0,   5,   5,   5,   5,   0,  -5,
               -10,   5,   5,   5,   5,   5,   0, -10,
               -10,   0,   5,   0,   0,   0,   0, -10,
               -20, -10, -10,  -5,  -5, -10, -10, -20 >>
        KING_MIDDLEGAME_TABLE ==
            << -30, -40, -40, -50, -50, -40, -40, -30,
               -30, -40, -40, -50, -50, -40, -40, -30,
               -30, -40, -40, -50, -50, -40, -40, -30,
               -30, -40, -40, -50, -50, -40, -40, -30,
               -20, -30, -30, -40, -40, -30, -30, -20,
               -10, -20, -20, -20, -20, -20, -20, -10,
                20,  20,   0,   0,   0,   0,  20,  20,
                20,  30,  10,   0,   0,  10,  30,  20 >>
    IN  CASE piece_type = PAWN -> PAWN_TABLE
          [] piece_type = KNIGHT -> KNIGHT_TABLE
          [] piece_type = BISHOP -> BISHOP_TABLE
          [] piece_type = ROOK -> ROOK_TABLE
          [] piece_type = QUEEN -> QUEEN_TABLE
          [] piece_type = KING -> KING_MIDDLEGAME_TABLE

\* (mutant) White reads the tables as Black does
get_piece_square_value_NoFlip(piece_type, sq, is_white, endgame) ==
    (IF piece_type = KING /\ endgame THEN KING_ENDGAME_TABLE ELSE PST(piece_type))[sq + 1]

\* get_piece_square_value(piece_type, square, is_white, is_endgame); the
\* tables are indexed from 0 in the source and from 1 here
get_piece_square_value(piece_type, sq, is_white, endgame) ==
    LET table == IF piece_type = KING /\ endgame THEN KING_ENDGAME_TABLE
                 ELSE PST(piece_type)
    IN  IF is_white THEN table[(63 - sq) + 1] ELSE table[sq + 1]

\* evaluate_material(board)
evaluate_material_of(sqs) ==
    SumTo([piece_type \in 0..6 |->
              IF piece_type = 0 THEN 0
              ELSE PIECE_VALUES(piece_type)
                   * (Cardinality(board_pieces(sqs, piece_type, WHITE))
                      - Cardinality(board_pieces(sqs, piece_type, BLACK)))], 6)

\* evaluate_piece_positions(board, endgame)
evaluate_piece_positions_of(sqs, endgame) ==
    SumSquares([sq \in SQUARES |->
                   IF sqs[sq] = 0 THEN 0
                   ELSE LET value == get_piece_square_value(
                                         Abs(sqs[sq]), sq, sqs[sq] > 0, endgame)
                        IN  IF sqs[sq] > 0 THEN value ELSE -value])

\* board.king(color)
king(sqs, color) == CHOOSE sq \in SQUARES : sqs[sq] = PieceCode(KING, color)

\* evaluate_king_safety(board, endgame) after its first test, which returns
\* 0 in an endgame: lines 216-252
evaluate_king_safety_of(sqs) ==
    LET safety(color) ==
            LET multiplier == IF color = WHITE THEN 1 ELSE -1
                king_file == square_file(king(sqs, color))
                king_rank == square_rank(king(sqs, color))
                back_rank == IF color = WHITE THEN 0 ELSE 7
                shield_squares ==
                    IF king_rank = back_rank
                    THEN {square(f, r) :
                             f \in {king_file + df_ : df_ \in {-1, 0, 1}} \cap (0..7),
                             r \in IF color = WHITE THEN {1, 2} ELSE {6, 5}}
                    ELSE {}
            IN  (IF king_file \in {6, 2} /\ king_rank = back_rank
                 THEN 30 * multiplier ELSE 0)
                + 10 * multiplier
                  * Cardinality({sq \in shield_squares :
                                    sqs[sq] = PieceCode(PAWN, color)})
    IN  safety(WHITE) + safety(BLACK)

\* The piece on the square `from` attacks the square `to`: a pawn one step
\* diagonally forward, a knight, a king, and a bishop, rook or queen along a
\* line on which no piece stands in between.
AttacksSquare(sqs, from, to) ==
    LET code == sqs[from]
        piece_type == Abs(code)
        df == square_file(to) - square_file(from)
        dr == square_rank(to) - square_rank(from)
        n == Max(Abs(df), Abs(dr))
        Sign(x) == IF x > 0 THEN 1 ELSE IF x < 0 THEN -1 ELSE 0
        clear == \A k \in 1..(n - 1) :
                     sqs[square(square_file(from) + k * Sign(df),
                                square_rank(from) + k * Sign(dr))] = 0
        diagonal == Abs(df) = Abs(dr) /\ n > 0
        straight == (df = 0) # (dr = 0)
    IN  CASE piece_type = PAWN -> Abs(df) = 1 /\ dr = (IF code > 0 THEN 1 ELSE -1)
          [] piece_type = KNIGHT -> {Abs(df), Abs(dr)} = {1, 2}
          [] piece_type = KING -> n = 1
          [] piece_type = BISHOP -> diagonal /\ clear
          [] piece_type = ROOK -> straight /\ clear
          [] piece_type = QUEEN -> (diagonal \/ straight) /\ clear
          [] OTHER -> FALSE

\* board.is_attacked_by(color, square)
is_attacked_by(sqs, color, sq) ==
    \E from \in SQUARES :
        /\ sqs[from] # 0
        /\ (sqs[from] > 0) = (color = WHITE)
        /\ AttacksSquare(sqs, from, sq)

\* The moves of the pieces of a colour, whether or not they leave the king
\* attacked: a piece to a square it attacks that holds no piece of its
\* colour; a pawn one step forward to an empty square, two from its home
\* rank over empty squares, or onto an enemy piece it attacks, promoting on
\* the last rank.  No castling and no capture en passant: no board of three
\* moves or fewer has one.
pseudo_legal_moves(sqs, color) ==
    LET own(sq) == sqs[sq] # 0 /\ (sqs[sq] > 0) = (color = WHITE)
        enemy(sq) == sqs[sq] # 0 /\ (sqs[sq] > 0) # (color = WHITE)
        up == IF color = WHITE THEN 8 ELSE -8
        home == IF color = WHITE THEN 1 ELSE 6
        last == IF color = WHITE THEN 7 ELSE 0
        reaches(from, to) ==
            IF Abs(sqs[from]) = PAWN
            THEN \/ to = from + up /\ sqs[to] = 0
                 \/ /\ to = from + 2 * up
                    /\ square_rank(from) = home
                    /\ sqs[from + up] = 0
                    /\ sqs[to] = 0
                 \/ AttacksSquare(sqs, from, to) /\ enemy(to)
            ELSE AttacksSquare(sqs, from, to) /\ ~own(to)
        promotions(from, to) ==
            IF Abs(sqs[from]) = PAWN /\ square_rank(to) = last
            THEN {QUEEN, ROOK, BISHOP, KNIGHT} ELSE {0}
    IN  UNION { { [from |-> ft[1], to |-> ft[2], promotion |-> p] :
                      p \in promotions(ft[1], ft[2]) } :
                  ft \in {pair \in {sq \in SQUARES : own(sq)} \X SQUARES :
                             reaches(pair[1], pair[2])} }

\* The placement after a move: the piece, or the piece a pawn promotes to,
\* stands on the target square.
MakeMove(sqs, m) ==
    [sqs EXCEPT ![m.from] = 0,
                ![m.to] = IF m.promotion # 0
                          THEN PieceCode(m.promotion, sqs[m.from] > 0)
                          ELSE sqs[m.from]]

\* board.legal_moves with board.turn = color: the moves that do not leave
\* the king of the colour attacked
legal_moves(sqs, color) ==
    {m \in pseudo_legal_moves(sqs, color) :
        ~is_attacked_by(MakeMove(sqs, m), ~color, king(MakeMove(sqs, m), color))}

\* evaluate_mobility(board): board.turn is set to each colour in turn and
\* set back
evaluate_mobility_of(sqs) ==
    LET white_mobility == Cardinality(legal_moves(sqs, WHITE))
        black_mobility == Cardinality(legal_moves(sqs, BLACK))
    IN  (white_mobility - black_mobility) * 5

\* evaluate_center_control(board)
evaluate_center_control_of(sqs) ==
    LET center_squares == {square(3, 3), square(3, 4), square(4, 3), square(4, 4)}
        extended_center ==
            {square(f, r) : f \in {2, 5}, r \in 2..5}
            \cup {square(f, r) : f \in {3, 4}, r \in {2, 5}}
        attacks(sq, points) ==
            (IF is_attacked_by(sqs, WHITE, sq) THEN points ELSE 0)
            - (IF is_attacked_by(sqs, BLACK, sq) THEN points ELSE 0)
    IN  SumSquares([sq \in SQUARES |->
                       IF sq \in center_squares
                       THEN (IF sqs[sq] > 0 THEN 10 ELSE IF sqs[sq] < 0 THEN -10 ELSE 0)
                            + attacks(sq, 5)
                       ELSE IF sq \in extended_center THEN attacks(sq, 2)
                       ELSE 0])

\* evaluate_rook_placement(board)
evaluate_rook_placement_of(sqs) ==
    LET pawns_on_file(color, f) ==
            \E sq \in board_pieces(sqs, PAWN, color) : square_file(sq) = f
        between(a, b) ==
            LET lo == IF a < b THEN a ELSE b
                hi == IF a < b THEN b ELSE a
            IN  IF square_rank(a) = square_rank(b)
                THEN {sq \in SQUARES : square_rank(sq) = square_rank(a)
                                       /\ lo < sq /\ sq < hi}
                ELSE {sq \in SQUARES : square_file(sq) = square_file(a)
                                       /\ lo < sq /\ sq < hi}
        connected(rooks) ==
            /\ Cardinality(rooks) = 2
            /\ \E r1, r2 \in rooks :
                   /\ r1 < r2
                   /\ \/ square_rank(r1) = square_rank(r2)
                      \/ square_file(r1) = square_file(r2)
                   /\ \A sq \in between(r1, r2) : sqs[sq] = 0
        placement(color) ==
            LET multiplier == IF color = WHITE THEN 1 ELSE -1
                rooks == board_pieces(sqs, ROOK, color)
                seventh == IF color = WHITE THEN 6 ELSE 1
            IN  SumSquares([sq \in SQUARES |->
                    IF sq \notin rooks THEN 0
                    ELSE (IF square_rank(sq) = seventh THEN 20 * multiplier ELSE 0)
                         + (IF /\ ~pawns_on_file(WHITE, square_file(sq))
                               /\ ~pawns_on_file(BLACK, square_file(sq))
                            THEN 15 * multiplier
                            ELSE IF ~pawns_on_file(color, square_file(sq))
                            THEN 10 * multiplier
                            ELSE 0)])
                + (IF connected(rooks) THEN 10 * multiplier ELSE 0)
    IN  placement(WHITE) + placement(BLACK)

\* evaluate_bishop_pair(board)
evaluate_bishop_pair_of(sqs) ==
    (IF Cardinality(board_pieces(sqs, BISHOP, WHITE)) >= 2 THEN 30 ELSE 0)
    - (IF Cardinality(board_pieces(sqs, BISHOP, BLACK)) >= 2 THEN 30 ELSE 0)

\* the numbers of queens, knights and bishops that is_endgame counts
PiecesOf(sqs) ==
    Pieces(Cardinality(board_pieces(sqs, QUEEN, WHITE)),
           Cardinality(board_pieces(sqs, QUEEN, BLACK)),
           Cardinality(board_pieces(sqs, KNIGHT, WHITE)),
           Cardinality(board_pieces(sqs, BISHOP, WHITE)),
           Cardinality(board_pieces(sqs, KNIGHT, BLACK)),
           Cardinality(board_pieces(sqs, BISHOP, BLACK)))

\* What the rules engine reports of a board: checkmate or stalemate when
\* the side to move has no legal move; insufficient material when neither
\* side can mate (no pawn, rook or queen; a knight only as the last piece
\* beside the king against a king with at most queens; bishops only on
\* squares of one colour, without pawns and knights on the board); the move
\* rules by the halfmove clock; a repetition by the placements and sides to
\* move that the board went through.
StatusOf(b) ==
    LET occurrences ==
            1 + Cardinality({i \in 1..Len(b.stack) :
                                /\ b.stack[i].squares = b.squares
                                /\ b.stack[i].turn = b.turn})
        of_type(types) == {sq \in SQUARES : Abs(b.squares[sq]) \in types}
        of_color(color) ==
            {sq \in SQUARES : b.squares[sq] # 0 /\ (b.squares[sq] > 0) = (color = WHITE)}
        dark == {sq \in SQUARES : (square_file(sq) + square_rank(sq)) % 2 = 0}
        insufficient(color) ==
            IF of_color(color) \cap of_type({PAWN, ROOK, QUEEN}) # {} THEN FALSE
            ELSE IF of_color(color) \cap of_type({KNIGHT}) # {}
            THEN /\ Cardinality(of_color(color)) <= 2
                 /\ of_color(~color) \cap of_type({PAWN, KNIGHT, BISHOP, ROOK}) = {}
            ELSE IF of_color(color) \cap of_type({BISHOP}) # {}
            THEN /\ of_type({BISHOP}) \subseteq dark
                    \/ of_type({BISHOP}) \cap dark = {}
                 /\ of_type({PAWN, KNIGHT}) = {}
            ELSE TRUE
    IN  IF legal_moves(b.squares, b.turn) = {}
        THEN (IF is_attacked_by(b.squares, ~b.turn, king(b.squares, b.turn))
              THEN "checkmate" ELSE "stalemate")
        ELSE IF insufficient(WHITE) /\ insufficient(BLACK) THEN "insufficient"
        ELSE IF b.halfmove_clock >= 150 THEN "seventyfive"
        ELSE IF occurrences >= 5 THEN "fivefold"
        ELSE IF b.halfmove_clock >= 100 THEN "fifty"
        ELSE IF occurrences >= 3 THEN "threefold"
        ELSE "play"

\* The position of a board of pieces, as the evaluator reads it: the side
\* to move, what the rules engine reports, the piece counts, and the value
\* that each evaluation function computes from the pieces.
PositionOf(b) ==
    [turn |-> b.turn,
     status |-> StatusOf(b),
     pieces |-> PiecesOf(b.squares),
     comp |-> [material |-> evaluate_material_of(b.squares),
               piece_position |->
                   evaluate_piece_positions_of(b.squares,
                       is_endgame([pieces |-> PiecesOf(b.squares)])),
               pawn_structure |-> evaluate_pawn_structure_of(b.squares),
               king_safety |-> evaluate_king_safety_of(b.squares),
               mobility |-> evaluate_mobility_of(b.squares),
               center_control |-> evaluate_center_control_of(b.squares),
               rook_placement |-> evaluate_rook_placement_of(b.squares),
               bishop_pair |-> evaluate_bishop_pair_of(b.squares)]]

\* ------------------------- a call of evaluate_board on a new board

\* Most moves made on the board before it is evaluated.
MaxPlies == 2

\* chess.Board(): the standard initial position, White to move
StartingBoard ==
    LET back_rank == << ROOK, KNIGHT, BISHOP, QUEEN, KING, BISHOP, KNIGHT, ROOK >>
    IN  [squares |->
             [sq \in SQUARES |->
                 CASE square_rank(sq) = 0 -> PieceCode(back_rank[square_file(sq) + 1], WHITE)
                   [] square_rank(sq) = 1 -> PieceCode(PAWN, WHITE)
                   [] square_rank(sq) = 6 -> PieceCode(PAWN, BLACK)
                   [] square_rank(sq) = 7 -> PieceCode(back_rank[square_file(sq) + 1], BLACK)
                   [] OTHER -> 0],
         turn |-> WHITE, halfmove_clock |-> 0, stack |-> <<>>]

\* board = chess.Board()
SetUpBoard ==
    /\ board = NoBoard
    /\ board' = StartingBoard
    /\ UNCHANGED << max_depth, time_limit, nodes_searched, time_exceeded,
                    transposition_table, stats, elapsed, stack, ret, id,
                    result, calls, shown, obs, play >>

\* board.push(move) of a legal move m: the halfmove clock starts again at
\* a pawn move and at a capture
PushLegalMove(m) ==
    /\ Len(board.stack) < MaxPlies
    /\ board' = [squares |-> MakeMove(board.squares, m),
                 turn |-> ~board.turn,
                 halfmove_clock |->
                     IF Abs(board.squares[m.from]) = PAWN \/ board.squares[m.to] # 0
                     THEN 0 ELSE board.halfmove_clock + 1,
                 stack |-> Append(board.stack,
                                  [squares |-> board.squares, turn |-> board.turn,
                                   move |-> m])]
    /\ UNCHANGED << max_depth, time_limit, nodes_searched, time_exceeded,
                    transposition_table, stats, elapsed, stack, ret, id,
                    result, calls, shown, obs, play >>

\* evaluate_board(board) and get_evaluation_breakdown(board) on the board
EvaluateOnBoard ==
    /\ shown' = [fn |-> "evaluate_board", board |-> board,
                 score |-> evaluate_board(PositionOf(board)),
                 breakdown |-> get_evaluation_breakdown(PositionOf(board))]
    /\ UNCHANGED << max_depth, time_limit, nodes_searched, time_exceeded,
                    transposition_table, stats, elapsed, board, stack, ret, id,
                    result, calls, obs, play >>

NextBoard ==
    \/ shown = NoShown /\ SetUpBoard
    \/ /\ shown = NoShown
       /\ board # NoBoard
       /\ \E m \in legal_moves(board.squares, board.turn) : PushLegalMove(m)
    \/ shown = NoShown /\ board # NoBoard /\ EvaluateOnBoard

SpecBoard == Init /\ [][NextBoard]_vars

\* ------------------------------------------------- reference search

SetMax(S) == CHOOSE x \in S : \A y \in S : y <= x
SetMin(S) == CHOOSE x \in S : \A y \in S : x <= y

\* Quiescence without pruning: the better of standing pat and of the
\* tactical moves, to the same cap.
RECURSIVE FullQuiescence(_, _)
FullQuiescence(p, ply) ==
    LET pos == Game[p]
        stand_pat == evaluate_board(pos)
        moves == get_quiescence_moves(p)
        values == {FullQuiescence(moves[i].to, ply + 1) : i \in 1..Len(moves)}
    IN  IF QuiescenceCapped(ply) \/ moves = <<>> THEN stand_pat
        ELSE IF pos.turn = WHITE THEN SetMax(values \cup {stand_pat})
        ELSE SetMin(values \cup {stand_pat})

\* Minimax to depth d over every legal move, without pruning, ordering or
\* table, with the terminal scores of minimax and quiescence at depth 0.
RECURSIVE FullMinimax(_, _)
FullMinimax(p, d) ==
    LET pos == Game[p]
        moves == LegalMoves(p)
        values == {FullMinimax(moves[i].to, d - 1) : i \in 1..Len(moves)}
    IN  IF IsGameOver(pos)
        THEN (IF IsCheckmate(pos) THEN MateScore(pos, d) ELSE 0)
        ELSE IF d = 0 THEN FullQuiescence(p, 0)
        ELSE IF moves = <<>> THEN evaluate_board(pos)
        ELSE IF pos.turn = WHITE THEN SetMax(values) ELSE SetMin(values)

\* ------------------------------------------------------------- claims

\* C1: for every position and every depth d >= 1, a call of minimax with the
\* full window on an empty transposition table that returns without the
\* time running out returns the score of the unpruned full-width minimax
\* to depth d.
C1_AlphaBetaEqualsFullWidth ==
    (DirectDone /\ obs.cold /\ ~time_exceeded)
        => ret.score = FullMinimax(obs.root.pos, obs.depth)

\* C6: for every position, checkmates and draws included, the total that
\* get_evaluation_breakdown reports is the sum of its eight components.
C6_TotalIsSumOfComponents ==
    shown # NoShown =>
        LET b == shown.breakdown
        IN  b.total = b.material + b.piece_position + b.pawn_structure
                      + b.king_safety + b.mobility + b.center_control
                      + b.rook_placement + b.bishop_pair


\* a top-level search has returned, and no other has been called since
Finished == result.api # "none"

\* iterative_deepening or analyze_position has returned: the move, the
\* score and the depth reached are in the result
FinishedWithScore == result.api \in {"iterative_deepening", "analyze_position"}

\* C2: the move, score and depth that iterative_deepening returns are those
\* of the deepest iteration whose minimax call returned while time_exceeded
\* was still false (and the initial None, 0, 0 when there is none).
C2_ReturnsDeepestCompleteIteration ==
    FinishedWithScore =>
        /\ result.move = obs.complete.move
        /\ result.score = obs.complete.score
        /\ result.depth = obs.complete.depth

\* C3: with a time budget of zero, a search of a position that has a legal
\* move returns a move that is legal in that position.
C3_ZeroBudgetReturnsLegalMove ==
    (Finished /\ time_limit = 0 /\ LegalMoves(obs.root.pos) # <<>>)
        => \E i \in 1..Len(LegalMoves(obs.root.pos)) :
               LegalMoves(obs.root.pos)[i].uci = result.move

\* C4: when minimax or quiescence_search has returned, on whatever path, the
\* board (position and move stack) is the board of the moment of its call;
\* and so is it when iterative_deepening has returned.
C4_BoardRestoredOnReturn ==
    /\ ret # NoRet => board = ret.entry
    /\ Finished => board = obs.root

\* a call that pushed moves has returned on the time-abort path, two moves
\* below the root, with the board of its call
C4_Witness ==
    /\ ret.fn = "minimax"
    /\ ret.pushes >= 1
    /\ time_exceeded
    /\ Len(ret.entry.stack) >= 1
    /\ board = ret.entry

\* position p has a move that checkmates
HasMateInOne(p) ==
    \E i \in 1..Len(LegalMoves(p)) : IsCheckmate(Game[LegalMoves(p)[i].to])

\* the search that has just returned ran on an empty table, was not
\* aborted, had max_depth >= 2, and its root has a mate in one
MateInOneSearched ==
    /\ FinishedWithScore
    /\ obs.last.cold
    /\ ~obs.last.aborted
    /\ obs.last.max_depth >= 2
    /\ HasMateInOne(obs.last.root)

\* C5: on a root with a mate in one, with max_depth >= 2, an empty table
\* and no time-out, iterative_deepening returns a checkmating move with a
\* score of magnitude over 90000, found at depth 1, and does not run the
\* depth-2 iteration.
C5_MateInOneStopsAtDepthOne ==
    MateInOneSearched =>
        /\ result.move # NoMove
        /\ IsCheckmate(Game[LegalMove(obs.last.root, result.move).to])
        /\ Abs(result.score) > 90000
        /\ result.depth = 1
        /\ obs.complete.depth = 1

C5_Witness ==
    /\ MateInOneSearched
    /\ obs.last.root = "RM"
    /\ result.move = "m"
    /\ result.depth = 1

\* the search that has just returned (N2 nodes) was on the position of the
\* search before it (N1 nodes), which began on an empty table and was not
\* aborted, with the same or a smaller max_depth, and the table was not
\* cleared in between
Researched ==
    /\ obs.last.root # "None"
    /\ obs.last.root = obs.prev.root
    /\ obs.prev.cold
    /\ ~obs.prev.aborted
    /\ obs.last.max_depth <= obs.prev.max_depth

\* C7 as claimed: the second search visits strictly fewer nodes.
C7_ResearchVisitsFewerNodes ==
    Researched => obs.last.nodes < obs.prev.nodes

\* C7, amended: the second search visits strictly fewer nodes when the
\* position is not game over and has a legal move, so that the first search
\* left it in the table.
C7_ResearchOfCachedVisitsFewerNodes ==
    (Researched /\ ~IsGameOver(Game[obs.last.root])
                /\ LegalMoves(obs.last.root) # <<>>)
        => obs.last.nodes < obs.prev.nodes

C7_Witness ==
    /\ Researched
    /\ obs.last.root = "R0"
    /\ obs.last.max_depth = obs.prev.max_depth
    /\ obs.prev.nodes > obs.last.nodes
    /\ FinishedWithScore
    /\ result.stats.tt_hits >= 1

\* C8: the ply counter of quiescence_search never exceeds 7, and no more
\* than 7 moves are pushed below the node where quiescence began.
C8_QuiescenceCapped ==
    \A k \in 1..Len(stack) :
        stack[k].fn = "quiescence_search" =>
            /\ stack[k].depth <= 7
            /\ Len(board.stack) - (Len(stack[k].entry.stack) - stack[k].depth) <= 7

\* quiescence_search has returned at ply 7 from a position that still has
\* a tactical move, the time not being over
C8_Witness ==
    /\ ret.fn = "quiescence_search"
    /\ ret.depth = 7
    /\ ret.pushes = 0
    /\ get_quiescence_moves(ret.entry.pos) # <<>>
    /\ ~time_exceeded

\* C9: no step of a search (iterative_deepening, get_best_move,
\* analyze_position) nor reset_stats takes a key out of the transposition
\* table; clear_transposition_table leaves it empty.
C9_TablePersistsUntilCleared ==
    [][ /\ ClearTranspositionTable => transposition_table' = <<>>
        /\ ~ClearTranspositionTable =>
               DOMAIN transposition_table \subseteq DOMAIN transposition_table'
      ]_vars

\* a second search runs on the table the first one filled
C9_Witness ==
    /\ id.active
    /\ calls >= 2
    /\ ~obs.cold
    /\ "R0" \in DOMAIN transposition_table
    /\ obs.root.pos # "R0"

\* iterative_deepening has run up to its first call of minimax
SearchBegun ==
    id.active /\ id.depth = 1 /\ Len(stack) = 1 /\ Top.pc = "entry" /\ ret = NoRet

\* C10: every iterative_deepening call begins with nodes, tt_hits, cutoffs,
\* depth_reached and nodes_searched at 0 and time_exceeded false, and the
\* node count it returns is the number of nodes entered in that call.
C10_StatsResetAtSearchStart ==
    /\ SearchBegun =>
          /\ stats.nodes = 0 /\ stats.tt_hits = 0 /\ stats.cutoffs = 0
          /\ stats.depth_reached = 0
          /\ nodes_searched = 0
          /\ time_exceeded = FALSE
    /\ obs.last # NoPrev => obs.last.nodes = obs.visited

\* a search begins after a search that was aborted
C10_Witness ==
    /\ SearchBegun
    /\ obs.prev.aborted
    /\ obs.prev.nodes > 0
    /\ stats.nodes = 0

\* C11: after evaluate_mobility, evaluate_board or get_evaluation_breakdown
\* has returned, the board (side to move included) is the board it was
\* given, whichever side is to move.
C11_EvaluationLeavesBoardUnchanged ==
    /\ ret.fn \in {"evaluate_mobility", "evaluate_board"} => board = ret.entry
    /\ shown # NoShown => board = shown.pos

\* evaluate_board has returned from a position in play with Black to move,
\* on which evaluate_mobility set the turn to White and to Black
C11_Witness ==
    /\ ret.fn = "evaluate_board"
    /\ ret.entry.status = "play"
    /\ ret.entry.turn = BLACK
    /\ board.turn = BLACK

\* C12: a minimax node counts a transposition hit if and only if its time
\* check passed and the table holds an entry for its key whose depth is at
\* least its remaining depth; it then returns that entry's score and best
\* move, and otherwise (a shallower entry included) it does not return on
\* account of the table.
C12_HitOnlyWhenDeepEnough ==
    [][ AtEntry("minimax") =>
          LET h == board.pos
              deep_enough ==
                  /\ elapsed' <= time_limit
                  /\ h \in DOMAIN transposition_table
                  /\ transposition_table[h].depth >= Top.depth
          IN  /\ (stats'.tt_hits = stats.tt_hits + 1) <=> deep_enough
              /\ stats'.tt_hits \in {stats.tt_hits, stats.tt_hits + 1}
              /\ deep_enough =>
                    /\ stack' = Below
                    /\ ret'.score = transposition_table[h].score
                    /\ ret'.move = transposition_table[h].best_move
      ]_vars

\* the root has an entry of depth 1 that the depth-1 iteration returned (a
\* hit) and that the depth-2 iteration, now in its loop, did not return
C12_Witness ==
    /\ id.active
    /\ stats.tt_hits >= 1
    /\ stack # <<>>
    /\ stack[1].pc = "loop"
    /\ stack[1].depth = 2
    /\ stack[1].board_hash \in DOMAIN transposition_table
    /\ transposition_table[stack[1].board_hash].depth = 1

\* order_moves has returned: what it was given and what it returned
Ordered == shown # NoShown /\ shown.fn = "order_moves"

\* C13: when tt_move is one of the moves given to order_moves it is the
\* first move of the list returned, whatever the scores of the other moves;
\* and a minimax node that goes on to its moves with an entry in the table
\* whose best_move is one of its legal moves pushes that move first.
C13_HintedMoveFirst ==
    /\ [](Ordered =>
             ((\E i \in DOMAIN shown.moves : shown.moves[i].uci = shown.tt_move)
                  => shown.ordered[1].uci = shown.tt_move))
    /\ [][ ( /\ AtEntry("minimax")
             /\ Len(stack') = Len(stack) + 1
             /\ Top.depth > 0
             /\ board.pos \in DOMAIN transposition_table
             /\ \E i \in DOMAIN LegalMoves(board.pos) :
                    LegalMoves(board.pos)[i].uci
                        = transposition_table[board.pos].best_move )
           => /\ board'.stack[Len(board'.stack)].move
                    = transposition_table[board.pos].best_move
              /\ stack'[Len(stack)].moves[1]
                    = transposition_table[board.pos].best_move
         ]_vars

\* the hinted move is the king's capture of a pawn, which score_move scores
\* lowest, given together with the capture that promotes with check, which
\* it scores highest, and it is returned first
C13_Witness ==
    /\ Ordered
    /\ shown.tt_move = "king_takes_pawn"
    /\ \E i \in DOMAIN shown.moves : shown.moves[i].uci = "takes_promotes_checks"
    /\ shown.moves[1].uci # "king_takes_pawn"
    /\ shown.ordered[1].uci = "king_takes_pawn"

\* C14: a checkmated minimax node whose time check passed returns
\* -(99999 + r) with White to move and 99999 + r with Black to move, r its
\* remaining depth, and no move; and of two lines that mate, searched to
\* depth 3 without time-out, the mating side takes the one whose mate has
\* the greater remaining depth, though it is searched second.
C14_MateScoreGrowsWithDepth ==
    /\ [][ (AtEntry("minimax") /\ IsCheckmate(Game[board.pos])
                               /\ elapsed' <= time_limit)
           => /\ stack' = Below
              /\ ret'.move = NoMove
              /\ ret'.score = IF Turn(board.pos) = WHITE
                              THEN -(99999 + Top.depth) ELSE 99999 + Top.depth
         ]_vars
    /\ []((DirectDone /\ ~time_exceeded /\ obs.depth = 3)
             => /\ obs.root.pos = "RD" => (ret.move = "m" /\ ret.score = 99999 + 2)
                /\ obs.root.pos = "DB" => (ret.move = "m" /\ ret.score = -(99999 + 2)))

\* Black has taken the mate in one, searched after the line that mates two
\* moves later
C14_Witness ==
    /\ DirectDone
    /\ ~time_exceeded
    /\ obs.depth = 3
    /\ obs.root.pos = "DB"
    /\ ret.move = "m"
    /\ ret.score = -100001
    /\ "DB1" \in DOMAIN transposition_table

\* the position is drawn: stalemate, insufficient material, the fifty-move
\* rule or a threefold repetition
IsDraw(pos) ==
    pos.status \in {"stalemate", "insufficient", "fifty", "threefold",
                    "seventyfive", "fivefold"}

\* C15: a minimax node on a drawn position, whose time check passed and
\* which has no usable entry in the table, returns score 0 and no move
\* without making a move on the board.
C15_DrawNodeReturnsZero ==
    [][ ( /\ AtEntry("minimax")
          /\ IsDraw(Game[board.pos])
          /\ elapsed' <= time_limit
          /\ ~( /\ board.pos \in DOMAIN transposition_table
                /\ transposition_table[board.pos].depth >= Top.depth ) )
        => /\ stack' = Below
           /\ ret'.score = 0
           /\ ret'.move = NoMove
           /\ board' = board
      ]_vars

C17_EndgameIffQueensAndMinors ==
    (shown # NoShown /\ shown.fn = "is_endgame") =>
        LET c == shown.pieces
            minors == c.white_knights + c.white_bishops
                      + c.black_knights + c.black_bishops
        IN  shown.value <=>
                \/ c.white_queens = 0 /\ c.black_queens = 0
                \/ c.white_queens >= 1 /\ c.black_queens >= 1 /\ minors <= 2

\* C18: without a hinted move, in the list order_moves returns every move
\* that gives check comes before every move that does not, and every
\* capture that does not give check comes before every move that is neither
\* a check, a capture nor a promotion.
C18_ChecksCapturesQuiet ==
    (Ordered /\ shown.tt_move = NoMove) =>
        \A i, j \in DOMAIN shown.ordered :
            LET m == shown.ordered[i]
                n == shown.ordered[j]
            IN  /\ (m.is_check /\ ~n.is_check) => i < j
                /\ ( /\ ~m.is_check /\ IsCapture(m)
                     /\ ~n.is_check /\ ~IsCapture(n) /\ n.promotion = 0 ) => i < j

\* minimax has returned, the time not being over, from a node that is not
\* game over, has a legal move and had a remaining depth of 1 or more: a
\* node that minimax searches or answers from the table
VisitReturned ==
    /\ ret.fn = "minimax"
    /\ ~time_exceeded
    /\ ret.depth >= 1
    /\ ~IsGameOver(Game[ret.entry.pos])
    /\ LegalMoves(ret.entry.pos) # <<>>

\* C19 as claimed: every visit of a node overwrites its entry whatever depth
\* is stored, so that after a visit at a smaller depth the entry has the
\* smaller depth.
C19_EveryVisitOverwrites ==
    VisitReturned =>
        /\ ret.entry.pos \in DOMAIN transposition_table
        /\ transposition_table[ret.entry.pos].depth = ret.depth

\* C19, amended: no step replaces the entry of a key by an entry of smaller
\* or equal depth: an entry changes only to one of greater depth.
C19_DepthNeverDowngraded ==
    [][ \A h \in DOMAIN transposition_table \cap DOMAIN transposition_table' :
            transposition_table'[h] # transposition_table[h]
                => transposition_table'[h].depth > transposition_table[h].depth
      ]_vars

\* the depth-2 iteration of a search that began on an empty table has
\* returned and has overwritten the entry the depth-1 iteration stored for
\* the root
C19_Witness ==
    /\ id.active
    /\ obs.cold
    /\ stack = <<>>
    /\ VisitReturned
    /\ ret.depth = 2
    /\ obs.complete.depth = 1
    /\ obs.complete.move # NoMove
    /\ transposition_table[board.pos].depth = 2
    /\ stats.tt_hits = 0

\* the step in which iterative_deepening (or analyze_position, which
\* returns its stats) returns
SearchReturns ==
    id.active /\ ~id'.active
              /\ result'.api \in {"iterative_deepening", "analyze_position"}

\* C20: when iterative_deepening returns, time_exceeded is true if and only
\* if a minimax or quiescence node of that search read a time over the
\* budget, and the stats returned hold that flag.
C20_TimeFlagInStats ==
    [][ SearchReturns =>
          /\ time_exceeded' <=> obs'.over
          /\ "time_exceeded" \in DOMAIN result'.stats
          /\ result'.stats["time_exceeded"] = time_exceeded'
      ]_vars


\* C22: in no step that begins or ends with time_exceeded set is an entry
\* added to the transposition table or changed; so every entry was stored
\* by a node whose move loop ended while the flag was still false.
C22_NoStoreAfterAbort ==
    [][ (time_exceeded \/ time_exceeded') =>
            \A h \in DOMAIN transposition_table' :
                /\ h \in DOMAIN transposition_table
                /\ transposition_table'[h] = transposition_table[h]
      ]_vars

\* a minimax node that had pushed a move has returned after the abort, and
\* the table, which holds entries stored before the abort, has none for it
C22_Witness ==
    /\ id.active
    /\ time_exceeded
    /\ ret.fn = "minimax"
    /\ ret.pushes >= 1
    /\ ret.depth >= 1
    /\ transposition_table # <<>>
    /\ ret.entry.pos \notin DOMAIN transposition_table


\* C23: from the moment a node has set time_exceeded to the return of that
\* iterative_deepening call, no step calls minimax or quiescence_search
\* again (so no move is pushed), the node counters stay as they are, and no
\* further depth iteration is started.
C23_NoWorkAfterAbort ==
    [][ (id.active /\ time_exceeded) =>
            /\ Len(stack') <= Len(stack)
            /\ Len(board'.stack) <= Len(board.stack)
            /\ nodes_searched' = nodes_searched
            /\ stats'.nodes = stats.nodes
            /\ id'.active => id'.depth = id.depth
      ]_vars


\* C24: whatever earlier searches have left in the transposition table, a
\* move that iterative_deepening, get_best_move or analyze_position returns
\* is None or a legal move of the root it was given; and every best_move in
\* the table is a legal move of the position its key stands for.
C24_ReturnedMoveIsLegal ==
    /\ (Finished /\ result.move # NoMove) => result.move \in LegalNames(obs.root.pos)
    /\ \A h \in DOMAIN transposition_table :
           h \in DOMAIN Game /\ transposition_table[h].best_move \in LegalNames(h)

\* the second search of an engine, on the table that its first search
\* filled, has returned a move taken from a hit at its root, its only node
C24_Witness ==
    /\ Finished
    /\ ~obs.cold
    /\ obs.last.nodes = 1
    /\ obs.prev.nodes > 1
    /\ obs.prev.root = obs.last.root
    /\ obs.root.pos \in DOMAIN transposition_table
    /\ result.move = transposition_table[obs.root.pos].best_move
    /\ result.move \in LegalNames(obs.root.pos)


\* the moves pushed on a board, first to last: board.move_stack
MoveStack(b) == [i \in 1..Len(b.stack) |-> b.stack[i].move]

\* the call of get_best_move that play_game has just made
LastAsked(p) == p.asked[Len(p.asked)]

\* C26: play_game returns; it pushes at most max_moves moves; a move is
\* pushed only while the game is not over, and it is the move that the engine
\* of the side to move has just returned; where the game is over or the
\* engine asked returns None, play_game returns without another push; and
\* move_list is the sequence of the moves pushed on the board, at every
\* moment and so on return.
C26_PlayGameTerminates ==
    /\ [](play.pc # "none" =>
              /\ Len(play.move_list) <= play.max_moves
              /\ MoveStack(board) = play.move_list)
    /\ [][ (play.pc = "loop" /\ board' # board) =>
              /\ ~IsGameOver(Game[board.pos])
              /\ Len(play.move_list) < play.max_moves
              /\ Len(play'.asked) = Len(play.asked) + 1
              /\ LastAsked(play').side
                     = (IF Turn(board.pos) = WHITE THEN "white_engine"
                                                   ELSE "black_engine")
              /\ LastAsked(play').move
                     \in get_best_move(play[LastAsked(play').side], board.pos)
              /\ LastAsked(play').move \in LegalNames(board.pos)
              /\ board'.stack = Append(board.stack,
                                       [from |-> board.pos,
                                        move |-> LastAsked(play').move])
              /\ board'.pos = LegalMove(board.pos, LastAsked(play').move).to
              /\ play'.move_list = Append(play.move_list, LastAsked(play').move)
         ]_vars
    /\ [][ ( /\ play.pc = "loop"
             /\ \/ IsGameOver(Game[board.pos])
                \/ /\ Len(play'.asked) > Len(play.asked)
                   /\ LastAsked(play').move = NoMove )
           => (play'.pc = "returned" /\ board' = board
                                     /\ play'.move_list = play.move_list)
         ]_vars
    /\ [][ play.pc = "returned" => (play' = play /\ board' = board) ]_vars
    /\ (play.pc = "loop" ~> play.pc = "returned")

\* play_game, given two different engines and max_moves 3, has returned
\* after two moves because Black has given checkmate
C26_Witness ==
    /\ play.pc = "returned"
    /\ play.white_engine # play.black_engine
    /\ play.max_moves = 3
    /\ play.move_list = << "e", "m" >>
    /\ IsCheckmate(Game[board.pos])
    /\ play.result = "0-1"


\* evaluate_pawn_structure has returned for a board and for its mirror image
PawnsShown == shown # NoShown /\ shown.fn = "evaluate_pawn_structure"

\* C25: evaluate_pawn_structure of the board mirrored with the colours
\* swapped is minus evaluate_pawn_structure of the board; and what the
\* passed pawns of a side add to the score is in that side's favour: not
\* negative for White's, not positive for Black's.
C25_PawnStructureAntisymmetric ==
    PawnsShown =>
        /\ shown.mirrored = -shown.value
        /\ PassedPawns(shown.squares, WHITE) >= 0
        /\ PassedPawns(shown.squares, BLACK) <= 0


\* evaluate_board has returned for a board of pieces
BoardShown == shown # NoShown /\ shown.fn = "evaluate_board"

\* C21: evaluate_board of the standard initial position is 0, and so is
\* each of its eight components.
C21_InitialPositionEvaluatesToZero ==
    (BoardShown /\ shown.board = StartingBoard) =>
        /\ shown.score = 0
        /\ shown.breakdown.material = 0
        /\ shown.breakdown.piece_position = 0
        /\ shown.breakdown.pawn_structure = 0
        /\ shown.breakdown.king_safety = 0
        /\ shown.breakdown.mobility = 0
        /\ shown.breakdown.center_control = 0
        /\ shown.breakdown.rook_placement = 0
        /\ shown.breakdown.bishop_pair = 0

\* the standard initial position has been evaluated: it is a middlegame in
\* play, and each side has 20 legal moves
C21_Witness ==
    /\ BoardShown
    /\ shown.board.stack = <<>>
    /\ shown.board.squares = StartingBoard.squares
    /\ ~shown.breakdown.is_endgame
    /\ StatusOf(shown.board) = "play"
    /\ Cardinality(legal_moves(shown.board.squares, WHITE)) = 20
    /\ Cardinality(legal_moves(shown.board.squares, BLACK)) = 20

====
